---------------------------- MODULE Spec2Model ----------------------------
(***************************************************************************)
(* LiteResearch: the retrieval pipeline of backend/literesearch.           *)
(*                                                                         *)
(*   Spec        LiteResearcher.conduct_research: the asyncio event loop,  *)
(*               the semaphore and the sub-query pipelines                 *)
(*   SpecSearch  TavilySearch: constructor and search (primary provider,   *)
(*               fallback to the secondary provider)                       *)
(*   SpecFetch   BeautifulSoupScraper.scrape: one HTTP GET and the text    *)
(*               extraction                                                *)
(***************************************************************************)
EXTENDS Integers, Sequences, FiniteSets, TLC

VARIABLES
    \* ---- LiteResearcher (literesearcher.py)
    cfg,            \* self.cfg: the Config object's fields read by the pipeline
    env_api_key,    \* os.environ TAVILY_API_KEY is set and non-empty
    retriever_pages,\* SearchAPIRetriever.pages, the class's default list
    run_pc,         \* position of run: "conduct_research", "returned", "raised"
    report_type,    \* self.report_type
    report_calls,   \* the calls generate_report has made, with their context
    agent_given,    \* the constructor received both agent and role
    agent_attempts, \* attempts tenacity has made of choose_agent
    agent,          \* self.agent
    sq_response,    \* response.content of get_sub_queries' model call
    sub_queries,    \* the list returned by get_sub_queries
    cr_pc,          \* position of conduct_research
    cr_exc,         \* the exception conduct_research raised
    context,        \* self.context
    \* ---- asyncio: event loop, semaphore, gather
    loop_ready,     \* the loop's FIFO of ready handles
    running,        \* the task whose step occupies the loop's thread (0: none)
    sem_value,      \* asyncio.Semaphore._value
    sem_waiters,    \* asyncio.Semaphore._waiters
    task_args,      \* arguments of limited_process_sub_query, per task
    task_pc,        \* position of each task
    task_urls,      \* urls (process_sub_query local)
    task_docs,      \* scraped_content (process_sub_query local)
    task_result,    \* the task future's result
    task_exc,       \* the task future's exception
    nfinished,      \* gather: number of children whose done callback ran
    outer,          \* gather: the outer future
    \* ---- one TavilySearch object (web_retriever.py)
    ts_pc,          \* "new", "constructed", "config_error", "returned", "raised"
    ts_query,       \* self.query
    ts_max_results, \* the max_results argument of search
    ts_headers_key, \* headers.get("tavily_api_key")
    ts_environ_key, \* os.environ.get("TAVILY_API_KEY")
    ts_primary,     \* what the primary provider answered
    ts_secondary,   \* what the secondary provider answers when it is asked
    ts_calls,       \* the requests issued to the providers, in order
    ts_ret,         \* the list search returned
    ts_exc,         \* the exception the constructor or search raised
    \* ---- one BeautifulSoupScraper.scrape call (web_retriever.py)
    bs_pc,          \* "new", "returned", "raised"
    bs_resp,        \* what session.get met: a network error or a response
    bs_parsed,      \* BeautifulSoup was given the body
    bs_ret,         \* the string scrape returned
    \* ---- one Scraper.run call and its thread pool (web_retriever.py)
    sc_pc,          \* "new", "pool" (inside the with block), "returned"
    sc_urls,        \* self.urls
    sc_max_workers, \* max_workers of the pool
    sc_submitted,   \* executor.map: how many urls have been submitted
    sc_threads,     \* worker threads the pool has started
    sc_item,        \* per url: "none", "queued", "running", "done"
    sc_fetch,       \* per url: what its fetch yielded
    sc_content,     \* per url: the result of its future
    sc_ret,         \* the list run returned
    \* ---- one ContextCompressor.get_context call (web_retriever.py)
    cc_pc,          \* "new", "returned", "raised"
    cc_docs,        \* self.documents
    cc_max_results, \* the max_results argument
    cc_embed,       \* what the embedding service answers when it is asked
    cc_relevant,    \* relevant_docs (get_context local)
    cc_ret,         \* the string get_context returned, as its blocks
    cc_exc,         \* the exception get_context raised
    \* ---- one process_sub_query call on its own (literesearcher.py)
    pl_pc,          \* "search", "scrape", "compress", "returned", "raised"
    pl_sub_query,   \* the sub_query argument
    pl_env_key,     \* TAVILY_API_KEY is set
    pl_max_results, \* self.cfg.max_search_results_per_query
    pl_found,       \* search_results
    pl_urls,        \* urls
    pl_docs,        \* scraped_content
    pl_log,         \* the stages that have returned: what each was given and gave
    pl_ret,         \* compressed_context, as returned
    pl_exc,         \* the exception process_sub_query raised
    \* ---- one LangfuseManager.get_config_with_callbacks call (langfuse_tools.py)
    lf_pc,          \* "new", "copied", "handled", "returned"
    lf_enabled,     \* self._enabled
    lf_heap,        \* the list objects, by identity: their elements
    lf_existing_config, \* the caller's dictionary ("callbacks": a list identity)
    lf_config,      \* config (local)
    lf_handler,     \* handler (local)
    lf_ret          \* the dictionary returned

run_vars == <<run_pc, report_type, report_calls>>

orch_vars == <<cfg, env_api_key, run_vars, sq_response, retriever_pages,
               agent_given, agent_attempts, agent, sub_queries,
               cr_pc, cr_exc, context, loop_ready, running, sem_value,
               sem_waiters, task_args, task_pc, task_urls, task_docs,
               task_result, task_exc, nfinished, outer>>

ts_vars == <<ts_pc, ts_query, ts_max_results, ts_headers_key, ts_environ_key,
             ts_primary, ts_secondary, ts_calls, ts_ret, ts_exc>>

bs_vars == <<bs_pc, bs_resp, bs_parsed, bs_ret>>

sc_vars == <<sc_pc, sc_urls, sc_max_workers, sc_submitted, sc_threads, sc_item,
             sc_fetch, sc_content, sc_ret>>

cc_vars == <<cc_pc, cc_docs, cc_max_results, cc_embed, cc_relevant, cc_ret,
             cc_exc>>

pl_vars == <<pl_pc, pl_sub_query, pl_env_key, pl_max_results, pl_found,
             pl_urls, pl_docs, pl_log, pl_ret, pl_exc>>

\* the variables of the components checked on their own
lf_vars == <<lf_pc, lf_enabled, lf_heap, lf_existing_config, lf_config,
             lf_handler, lf_ret>>

unit_vars == <<ts_vars, bs_vars, sc_vars, cc_vars, pl_vars, lf_vars>>

\* what a step of one component leaves alone
ts_frame == <<orch_vars, bs_vars, sc_vars, cc_vars, pl_vars, lf_vars>>
bs_frame == <<orch_vars, ts_vars, sc_vars, cc_vars, pl_vars, lf_vars>>
sc_frame == <<orch_vars, ts_vars, bs_vars, cc_vars, pl_vars, lf_vars>>
cc_frame == <<orch_vars, ts_vars, bs_vars, sc_vars, pl_vars, lf_vars>>
pl_frame == <<orch_vars, ts_vars, bs_vars, sc_vars, cc_vars, lf_vars>>
lf_frame == <<orch_vars, ts_vars, bs_vars, sc_vars, cc_vars, pl_vars>>

vars == <<orch_vars, unit_vars>>

-----------------------------------------------------------------------------
(* Bounds of the model *)

MaxSubQueries == 3      \* longest list get_sub_queries returns
MaxResults == 2         \* largest max_search_results_per_query
MaxElems == 2           \* most elements in the body of a page
MaxUrls == 3            \* longest url list of one Scraper.run
MaxSubtopics == 2       \* most subtopics construct_subtopics returns
MaxCallbacks == 2       \* most handlers in the caller's "callbacks" list
MaxChunks == 3          \* most chunks the splitter makes of one document list

(* Program constants *)

DEFAULT_CONCURRENCY_LIMIT == 5
MAX_ATTEMPTS == 3
COMPRESS_MAX_RESULTS == 5
MIN_CONTENT_LENGTH == 100
DEFAULT_MAX_WORKERS == 20
DEFAULT_TIMEOUT == 4
CHUNK_SIZE == 500
CHUNK_OVERLAP == 100
SIMILARITY_THRESHOLD == 38      \* 0.38, in hundredths
EMBEDDINGS_FILTER_K == 20       \* EmbeddingsFilter.k, left at its default

URLS == {"u1", "u2"}

NoExc == [type |-> "none", reason |-> ""]

\* no response of the language model yet
NoAnswer == [kind |-> "none", value |-> <<>>]

\* the sequences over S of length lo..hi without a repeated element
SeqsOf(S, lo, hi) ==
    UNION {{s \in [1..n -> S] : \A i, j \in 1..n : i # j => s[i] # s[j]} :
           n \in lo..hi}

\* the subsequence of s at the positions in keep, in the order of s
RECURSIVE Select(_, _)
Select(s, keep) ==
    IF s = <<>> THEN <<>>
    ELSE LET rest == Select(Tail(s), {k - 1 : k \in keep \ {1}})
         IN  IF 1 \in keep THEN <<Head(s)>> \o rest ELSE rest

Prefix(s, n) == SubSeq(s, 1, IF Len(s) < n THEN Len(s) ELSE n)

-----------------------------------------------------------------------------
(* TavilySearch (web_retriever.py)                                          *)

\* Python truthiness of an optional string: None and "" are falsy
Truthy(k) == k \notin {"None", ""}

KeyValues == {"None", "", "tvly-key"}

\* _get_api_key without the check: the key is handed on as it is
GetApiKeyUnchecked(headers_key, environ_key) ==
    [raised |-> FALSE, exc |-> NoExc,
     value |-> IF Truthy(headers_key) THEN headers_key ELSE environ_key]

\* TavilySearch._get_api_key: headers first, then the environment
GetApiKey(headers_key, environ_key) ==
    LET api_key == IF Truthy(headers_key) THEN headers_key ELSE environ_key
    IN  IF ~Truthy(api_key)
        THEN [raised |-> TRUE,
              exc |-> [type |-> "TavilyAPIError", reason |-> "no_api_key"],
              value |-> "None"]
        ELSE [raised |-> FALSE, exc |-> NoExc, value |-> api_key]

\* what the primary provider answers: client.search raises, or returns a
\* dict whose "results" list holds {url, content} objects
PrimaryObjects == [url : URLS, content : {"text"}]
PrimaryOutcomes(max_results) ==
    {[kind |-> "exception", results |-> <<>>]}
    \cup [kind : {"ok"}, results : SeqsOf(PrimaryObjects, 0, max_results)]

\* what the secondary provider answers: ddg.text raises, or yields
\* {title, href, body} objects
SecondaryObjects == [title : {"title"}, href : URLS, body : {"text"}]
SecondaryOutcomes(max_results) ==
    {[kind |-> "exception", results |-> <<>>]}
    \cup [kind : {"ok"}, results : SeqsOf(SecondaryObjects, 0, max_results)]

TavilyCall(query, max_results) ==
    [provider |-> "tavily", query |-> query, max_results |-> max_results]
DdgCall(query, max_results) ==
    [provider |-> "duckduckgo", query |-> query, max_results |-> max_results]

\* the list comprehension of line 73, walking the sources backwards
MapSourcesReversed(sources) ==
    [i \in 1..Len(sources) |->
        [href |-> sources[Len(sources) + 1 - i].url,
         body |-> sources[Len(sources) + 1 - i].content]]

\* the list comprehension of line 73
MapSources(sources) ==
    [i \in 1..Len(sources) |->
        [href |-> sources[i].url, body |-> sources[i].content]]

\* the except-Exception branch of search: the secondary provider
Fallback(query, max_results, S) ==
    [raised |-> FALSE, exc |-> NoExc,
     value |-> IF S.kind = "ok" THEN S.results ELSE <<>>,
     calls |-> <<TavilyCall(query, max_results), DdgCall(query, max_results)>>]

\* TavilySearch.search: P is the primary provider's answer, S the secondary's.
\* An empty primary result raises TavilyAPIError inside the try block, and the
\* first except clause re-raises it; any other exception falls back.
TavilySearch_search(query, max_results, P, S) ==
    IF P.kind = "ok"
    THEN IF P.results = <<>>
         THEN [raised |-> TRUE,
               exc |-> [type |-> "TavilyAPIError", reason |-> "no_results"],
               value |-> <<>>,
               calls |-> <<TavilyCall(query, max_results)>>]
         ELSE [raised |-> FALSE, exc |-> NoExc,
               value |-> MapSources(P.results),
               calls |-> <<TavilyCall(query, max_results)>>]
    ELSE Fallback(query, max_results, S)

-----------------------------------------------------------------------------
(* LiteResearcher.conduct_research on the asyncio event loop                *)

ConcurrencyLimits == {1, 2, DEFAULT_CONCURRENCY_LIMIT}

Configs == [DEFAULT_CONCURRENCY_LIMIT : ConcurrencyLimits,
            max_search_results_per_query : 1..MaxResults,
            MIN_CONTENT_LENGTH : {MIN_CONTENT_LENGTH},
            DEFAULT_TIMEOUT : {DEFAULT_TIMEOUT},
            DEFAULT_MAX_WORKERS : {DEFAULT_MAX_WORKERS}]

\* the configuration object as a stage of a pipeline finds it with a field
\* overwritten: the search-result cap clamped to 1
StageClampsSearchResults(c) == [c EXCEPT !.max_search_results_per_query = 1]

\* the configuration object as conduct_research, process_sub_query, the
\* scraper and the compressor leave it: they read self.cfg (lines 111, 116,
\* 122, 155; web_retriever.py 133, 201, 221, 238) and assign none of its fields
StageLeavesConfig(c) == c

\* the stages of process_sub_query, in the order of its statements
StageAfterSkippingScrape(stage) == "compress"

StageAfter(stage) ==
    CASE stage = "search" -> "scrape"
      [] stage = "scrape" -> "compress"

\* the tasks gather has created
Tasks == 1..Len(task_pc)

StepHandle(t) == [k |-> "step", t |-> t]
DoneHandle(t) == [k |-> "done", t |-> t]
MainHandle == [k |-> "main", t |-> 0]

\* the pipelines holding a semaphore slot: admitted and not yet finished
Admitted == {t \in Tasks : task_pc[t] \in {"search", "scrape", "compress"}}

\* the researcher after __init__, its configuration and arguments apart
OrchFresh ==
    /\ retriever_pages = <<>>
    /\ sq_response = NoAnswer
    /\ run_pc = "conduct_research"
    /\ report_calls = <<>>
    /\ agent_attempts = 0
    /\ agent = IF agent_given THEN "given" ELSE "None"
    /\ sub_queries = <<>>
    /\ cr_pc = "choose_agent"
    /\ cr_exc = NoExc
    /\ context = <<>>
    /\ loop_ready = <<>>
    /\ running = 0
    /\ sem_value = 0
    /\ sem_waiters = <<>>
    /\ task_args = <<>>
    /\ task_pc = <<>>
    /\ task_urls = <<>>
    /\ task_docs = <<>>
    /\ task_result = <<>>
    /\ task_exc = <<>>
    /\ nfinished = 0
    /\ outer = [state |-> "none", result |-> <<>>, exc |-> NoExc]

OrchInit ==
    /\ report_type = "research_report"
    /\ cfg \in Configs
    /\ env_api_key \in BOOLEAN
    /\ agent_given \in BOOLEAN
    /\ OrchFresh

loop_vars == <<loop_ready, running, sem_value, sem_waiters, task_args, task_pc,
               task_urls, task_docs, task_result, task_exc, nfinished, outer>>

\* a retry policy that never gives up
StopNever(attempts) == FALSE

\* literesearch_agent.py line 56, stop=stop_after_attempt(3): after a failed
\* attempt tenacity gives up when that many attempts have been made
StopAfterAttempt(attempts) == attempts >= MAX_ATTEMPTS

\* lines 143-145: one attempt of choose_agent under tenacity's
\* retry(stop_after_attempt(3)); skipped when agent and role were given
ChooseAgent ==
    /\ cr_pc = "choose_agent"
    /\ IF agent_given
       THEN /\ cr_pc' = "get_sub_queries"
            /\ UNCHANGED <<agent, agent_attempts, cr_exc>>
       ELSE \E outcome \in {"ok", "json_error", "error"} :
              /\ agent_attempts' = agent_attempts + 1
              /\ CASE outcome = "ok" ->
                        /\ agent' = "chosen"
                        /\ cr_pc' = "get_sub_queries"
                        /\ UNCHANGED cr_exc
                   [] outcome = "json_error" ->
                        /\ agent' = "Default Agent"
                        /\ cr_pc' = "get_sub_queries"
                        /\ UNCHANGED cr_exc
                   [] OTHER ->
                        IF StopAfterAttempt(agent_attempts + 1)
                        THEN /\ cr_pc' = "raised"
                             /\ cr_exc' = [type |-> "RetryError",
                                           reason |-> "choose_agent"]
                             /\ UNCHANGED agent
                        ELSE UNCHANGED <<cr_pc, cr_exc, agent>>
    /\ UNCHANGED <<cfg, env_api_key, run_vars, sq_response, retriever_pages,
                   agent_given, sub_queries, context>>
    /\ UNCHANGED loop_vars
    /\ UNCHANGED unit_vars

\* self.query, the original query; the sub-queries of the model are 1, 2, ...
ORIGINAL_QUERY == 0

\* response.content: the text of a JSON list of sub-queries, or text that
\* is not JSON
ResponseContents ==
    [kind : {"json"}, value : {[i \in 1..n |-> i] : n \in 0..MaxSubQueries}]
    \cup {[kind |-> "text", value |-> <<>>]}

\* json.loads(response.content), line 174
JsonLoads(content) ==
    IF content.kind = "json"
    THEN [raised |-> FALSE, value |-> content.value]
    ELSE [raised |-> TRUE, value |-> <<>>]

\* get_sub_queries returning no sub-query for a response that is not JSON
ParseSubQueriesOrNone(content, query) ==
    LET parsed == JsonLoads(content)
    IN  IF parsed.raised THEN <<>> ELSE parsed.value

\* literesearch_agent.py lines 173-178: the parsed list, or the original
\* query alone when json.loads raises JSONDecodeError
ParseSubQueries(content, query) ==
    LET parsed == JsonLoads(content)
    IN  IF parsed.raised THEN <<query>> ELSE parsed.value

\* lines 147-150
GetSubQueries ==
    /\ cr_pc = "get_sub_queries"
    /\ \E response \in {"answer", "error"} :
         IF response = "error"
         THEN /\ cr_pc' = "raised"
              /\ cr_exc' = [type |-> "LLMError", reason |-> "get_sub_queries"]
              /\ UNCHANGED <<sub_queries, sq_response>>
         ELSE /\ \E content \in ResponseContents :
                   /\ sq_response' = content
                   /\ sub_queries' = ParseSubQueries(content, ORIGINAL_QUERY)
              /\ cr_pc' = "gather"
              /\ UNCHANGED cr_exc
    /\ UNCHANGED <<cfg, env_api_key, run_vars, retriever_pages, agent_given,
                   agent_attempts, agent, context>>
    /\ UNCHANGED loop_vars
    /\ UNCHANGED unit_vars

\* asyncio.Semaphore.acquire on an unlocked semaphore, without the decrement
SemAcquireNoDecrement(v) == v

\* asyncio.Semaphore.acquire on an unlocked semaphore (async with, line 158)
SemAcquire(v) == v - 1

\* leaving the async with block without giving the slot back
SemReleaseNoIncrement(v) == v

\* asyncio.Semaphore.release (leaving the async with block, line 158)
SemRelease(v) == v + 1

\* lines 161-164: one coroutine per sub-query, in the order of the list
\* (index is i + 1 over Python's 0-based enumerate)
BuildTasks(qs) ==
    [i \in 1..Len(qs) |->
        [sub_query |-> qs[i], index |-> i, total |-> Len(qs)]]

\* the results of the children with the empty contexts left out
GatherResultsNonEmpty(results) ==
    Select(results, {i \in 1..Len(results) : results[i] # <<>>})

\* the results of the children, last child first
GatherResultsReversed(results) ==
    [i \in 1..Len(results) |-> results[Len(results) + 1 - i]]

\* asyncio.gather: the children's results in the order of the children
GatherResults(results) == [i \in 1..Len(results) |-> results[i]]

\* lines 154-165: the semaphore, the tasks and gather. gather wraps each
\* coroutine in a task, and each task's first step is queued on the loop in
\* that order; gather() of no coroutine is a future that is already done.
Gather ==
    /\ cr_pc = "gather"
    /\ LET n == Len(sub_queries) IN
       /\ sem_value' = cfg.DEFAULT_CONCURRENCY_LIMIT
       /\ sem_waiters' = <<>>
       /\ task_args' = BuildTasks(sub_queries)
       /\ task_pc' = [i \in 1..n |-> "ready"]
       /\ task_urls' = [i \in 1..n |-> <<>>]
       /\ task_docs' = [i \in 1..n |-> <<>>]
       /\ task_result' = [i \in 1..n |-> <<>>]
       /\ task_exc' = [i \in 1..n |-> NoExc]
       /\ loop_ready' = [i \in 1..n |-> StepHandle(i)]
       /\ nfinished' = 0
       /\ running' = 0
       /\ IF n = 0
          THEN /\ outer' = [state |-> "result", result |-> <<>>, exc |-> NoExc]
               /\ context' = <<>>
               /\ cr_pc' = "returned"
          ELSE /\ outer' = [state |-> "pending", result |-> <<>>, exc |-> NoExc]
               /\ cr_pc' = "awaiting"
               /\ UNCHANGED context
    /\ cfg' = StageLeavesConfig(cfg)
    /\ UNCHANGED <<env_api_key, run_vars, sq_response, retriever_pages,
                   agent_given, agent_attempts, agent,
                   sub_queries, cr_exc>>
    /\ UNCHANGED unit_vars

\* the loop takes the next handle, a step of task t: the task enters
\* async with semaphore. An unlocked semaphore is taken without suspending;
\* on a locked one the task suspends in the waiters' queue.
TaskStart(t) ==
    /\ cr_pc = "awaiting"
    /\ running = 0
    /\ loop_ready # <<>>
    /\ Head(loop_ready) = StepHandle(t)
    /\ task_pc[t] \in {"ready", "waiting"}
    /\ loop_ready' = Tail(loop_ready)
    /\ IF sem_value > 0
       THEN /\ sem_value' = SemAcquire(sem_value)
            /\ task_pc' = [task_pc EXCEPT ![t] = "search"]
            /\ running' = t
            /\ UNCHANGED sem_waiters
       ELSE /\ sem_waiters' = Append(sem_waiters, t)
            /\ task_pc' = [task_pc EXCEPT ![t] = "waiting"]
            /\ UNCHANGED <<sem_value, running>>
    /\ UNCHANGED <<cfg, env_api_key, run_vars, sq_response, retriever_pages,
                   agent_given, agent_attempts, agent,
                   sub_queries, cr_pc, cr_exc, context, task_args, task_urls,
                   task_docs, task_result, task_exc, nfinished, outer>>
    /\ UNCHANGED unit_vars

\* the coroutine of task t ends (return or exception): __aexit__ releases the
\* semaphore and wakes the first waiter, then the task's future is set and its
\* done callback (gather's) is queued; the step ends and the loop is free.
TaskFinish(t, result, exc) ==
    /\ sem_value' = SemRelease(sem_value)
    /\ sem_waiters' = IF sem_waiters = <<>> THEN <<>> ELSE Tail(sem_waiters)
    /\ loop_ready' =
         (IF sem_waiters = <<>> THEN loop_ready
          ELSE Append(loop_ready, StepHandle(Head(sem_waiters))))
         \o <<DoneHandle(t)>>
    /\ task_pc' = [task_pc EXCEPT ![t] = IF exc = NoExc THEN "done" ELSE "failed"]
    /\ task_result' = [task_result EXCEPT ![t] = result]
    /\ task_exc' = [task_exc EXCEPT ![t] = exc]
    /\ task_urls' = [task_urls EXCEPT ![t] = <<>>]
    /\ task_docs' = [task_docs EXCEPT ![t] = <<>>]
    /\ running' = 0

EnvironKey == IF env_api_key THEN "tvly-key" ELSE "None"

\* line 119
Hrefs(search_results) == [i \in 1..Len(search_results) |-> search_results[i].href]

\* lines 111-119: the retriever is constructed (its constructor reads the API
\* key) and search is called synchronously on the loop's thread
TaskSearch(t) ==
    /\ task_pc[t] = "search"
    /\ running = t
    /\ LET key == GetApiKey("None", EnvironKey)
           max_results == cfg.max_search_results_per_query
       IN  IF key.raised
           THEN TaskFinish(t, <<>>, key.exc)
           ELSE \E P \in PrimaryOutcomes(max_results),
                   S \in SecondaryOutcomes(max_results) :
                  LET r == TavilySearch_search(task_args[t].sub_query,
                                               max_results, P, S)
                  IN  IF r.raised
                      THEN TaskFinish(t, <<>>, r.exc)
                      ELSE /\ task_urls' = [task_urls EXCEPT ![t] = Hrefs(r.value)]
                           /\ task_pc' = [task_pc EXCEPT ![t] =
                                                    StageAfter("search")]
                           /\ UNCHANGED <<loop_ready, running, sem_value,
                                          sem_waiters, task_docs, task_result,
                                          task_exc>>
    /\ cfg' = StageLeavesConfig(cfg)
    /\ UNCHANGED <<env_api_key, run_vars, sq_response, retriever_pages,
                   agent_given, agent_attempts, agent,
                   sub_queries, cr_pc, cr_exc, context, task_args, nfinished,
                   outer>>
    /\ UNCHANGED unit_vars

\* raw_content is modelled by its length; None is -1
None == -1

\* what one fetch yields inside _extract_data_from_link: an exception, or the
\* text of the page (its length)
ContentLengths == {0, MIN_CONTENT_LENGTH - 1, MIN_CONTENT_LENGTH}
FetchOutcomes == [raised : BOOLEAN, len : ContentLengths]

\* _extract_data_from_link dropping content of exactly the minimum length
ExtractDroppingMinimum(link, f) ==
    IF f.raised THEN [url |-> link, raw_content |-> None]
    ELSE IF f.len <= MIN_CONTENT_LENGTH THEN [url |-> link, raw_content |-> None]
    ELSE [url |-> link, raw_content |-> f.len]

\* _extract_data_from_link answering a failed fetch with empty content
ExtractEmptyOnError(link, f) ==
    IF f.raised THEN [url |-> link, raw_content |-> 0]
    ELSE IF f.len < MIN_CONTENT_LENGTH THEN [url |-> link, raw_content |-> None]
    ELSE [url |-> link, raw_content |-> f.len]

\* Scraper._extract_data_from_link
ExtractDataFromLink(link, f) ==
    IF f.raised THEN [url |-> link, raw_content |-> None]
    ELSE IF f.len < MIN_CONTENT_LENGTH THEN [url |-> link, raw_content |-> None]
    ELSE [url |-> link, raw_content |-> f.len]

\* Scraper.run (through scrape_urls): executor.map yields the extractions in
\* the order of the urls; the entries whose raw_content is None are left out
Scraper_run(urls, fs) ==
    LET contents == [i \in 1..Len(urls) |-> ExtractDataFromLink(urls[i], fs[i])]
    IN  Select(contents, {i \in 1..Len(urls) : contents[i].raw_content # None})

\* lines 120-122: scrape_urls, called synchronously on the loop's thread
TaskScrape(t) ==
    /\ task_pc[t] = "scrape"
    /\ running = t
    /\ \E fs \in [1..Len(task_urls[t]) -> FetchOutcomes] :
         task_docs' = [task_docs EXCEPT ![t] = Scraper_run(task_urls[t], fs)]
    /\ task_pc' = [task_pc EXCEPT ![t] = StageAfter("scrape")]
    /\ cfg' = StageLeavesConfig(cfg)
    /\ UNCHANGED <<env_api_key, run_vars, sq_response, retriever_pages,
                   agent_given, agent_attempts, agent,
                   sub_queries, cr_pc, cr_exc, context, loop_ready, running,
                   sem_value, sem_waiters, task_args, task_urls, task_result,
                   task_exc, nfinished, outer>>
    /\ UNCHANGED unit_vars

\* SearchAPIRetriever.get_relevant_documents: one Document per page
\* (scraped pages carry no title)
GetRelevantDocuments(pages) ==
    [i \in 1..Len(pages) |->
        [source |-> pages[i].url, title |-> "",
         page_content |-> pages[i].raw_content]]

\* pretty_print_docs without the test i < top_n
PrettyPrintDocsUncapped(docs, top_n) ==
    [i \in 1..Len(docs) |->
        [Source |-> docs[i].source, Title |-> docs[i].title,
         Content |-> docs[i].page_content]]

\* ContextCompressor.pretty_print_docs: one block per document, for the first
\* top_n documents; the joined string is modelled as the sequence of blocks
\* (the empty string is the empty sequence)
PrettyPrintDocs(docs, top_n) ==
    [i \in 1..Len(Prefix(docs, top_n)) |->
        [Source |-> docs[i].source, Title |-> docs[i].title,
         Content |-> docs[i].page_content]]

\* RecursiveCharacterTextSplitter(chunk_size=500, chunk_overlap=100) on a text
\* of len characters without separators: a chunk of chunk_size characters
\* every chunk_size - chunk_overlap characters
ChunkCount(len) ==
    IF len <= 0 THEN 0
    ELSE IF len <= CHUNK_SIZE THEN 1
    ELSE 1 + ((len - CHUNK_SIZE) + (CHUNK_SIZE - CHUNK_OVERLAP) - 1)
                 \div (CHUNK_SIZE - CHUNK_OVERLAP)

\* the chunks of one document, each with the document's metadata; the text
\* of a chunk is modelled by where it starts and how long it is
ChunksOf(doc) ==
    [k \in 1..ChunkCount(doc.page_content) |->
        LET start == (k - 1) * (CHUNK_SIZE - CHUNK_OVERLAP)
            rest == doc.page_content - start
        IN  [source |-> doc.source, title |-> doc.title,
             page_content |-> [start |-> start,
                               len |-> IF rest < CHUNK_SIZE THEN rest
                                       ELSE CHUNK_SIZE]]]

\* the splitter over the documents: document order, then chunk order
RECURSIVE SplitDocuments(_)
SplitDocuments(docs) ==
    IF docs = <<>> THEN <<>>
    ELSE ChunksOf(Head(docs)) \o SplitDocuments(Tail(docs))

\* np.argsort(similarity)[::-1]: the indexes by descending score; the order
\* among equal scores is not specified
Orders(scores) ==
    {o \in SeqsOf(1..Len(scores), Len(scores), Len(scores)) :
        \A i \in 1..(Len(scores) - 1) : scores[o[i]] >= scores[o[i + 1]]}

\* what the embedding service and the similarity computation yield for n
\* chunks: the request raises, or every chunk gets a score (in hundredths)
EmbeddingOutcomes(n, S) ==
    {[kind |-> "exception", scores |-> <<>>, order |-> <<>>]}
    \cup UNION {[kind : {"ok"}, scores : {sc}, order : Orders(sc)] :
                sc \in [1..n -> S]}

\* the filter keeping a chunk whose score equals the threshold
EmbeddingsFilterKeepingEqual(chunks, E) ==
    LET included == Prefix(E.order, EMBEDDINGS_FILTER_K)
        idxs == Select(included, {i \in 1..Len(included) :
                          E.scores[included[i]] >= SIMILARITY_THRESHOLD})
    IN  [i \in 1..Len(idxs) |-> chunks[idxs[i]]]

\* the filter leaving the chunks in the order of the splitter
EmbeddingsFilterInEncounterOrder(chunks, E) ==
    Select(chunks, {i \in 1..Len(chunks) :
                        E.scores[i] > SIMILARITY_THRESHOLD})

\* EmbeddingsFilter(embeddings, similarity_threshold) of lines 297-299, k left
\* at its default: the k most similar chunks by descending score, of which
\* those with similarity > similarity_threshold are kept
EmbeddingsFilter(chunks, E) ==
    LET included == Prefix(E.order, EMBEDDINGS_FILTER_K)
        idxs == Select(included, {i \in 1..Len(included) :
                          E.scores[included[i]] > SIMILARITY_THRESHOLD})
    IN  [i \in 1..Len(idxs) |-> chunks[idxs[i]]]

EmbeddingError == [type |-> "HTTPError", reason |-> "embedding"]

\* the retriever handing every page list, the empty one too, to the pipeline
InvokeWithoutEmptyGuard(pages, E) ==
    IF E.kind = "exception"
    THEN [raised |-> TRUE, exc |-> EmbeddingError, value |-> <<>>]
    ELSE [raised |-> FALSE, exc |-> NoExc,
          value |-> EmbeddingsFilter(
                        SplitDocuments(GetRelevantDocuments(pages)), E)]

\* compressed_docs.invoke(query), line 334: the retriever of lines 300-307.
\* No document from the base retriever: no call of the pipeline. Otherwise
\* the splitter, then the filter, whose embedding requests may raise.
ContextualCompressionRetriever_invoke(pages, E) ==
    LET docs == GetRelevantDocuments(pages) IN
    IF docs = <<>>
    THEN [raised |-> FALSE, exc |-> NoExc, value |-> <<>>]
    ELSE IF E.kind = "exception"
    THEN [raised |-> TRUE, exc |-> EmbeddingError, value |-> <<>>]
    ELSE [raised |-> FALSE, exc |-> NoExc,
          value |-> EmbeddingsFilter(SplitDocuments(docs), E)]

\* ContextCompressor.get_context
ContextCompressor_get_context(pages, max_results, E) ==
    LET r == ContextualCompressionRetriever_invoke(pages, E) IN
    IF r.raised
    THEN [raised |-> TRUE, exc |-> r.exc, relevant_docs |-> <<>>,
          value |-> <<>>]
    ELSE [raised |-> FALSE, exc |-> NoExc, relevant_docs |-> r.value,
          value |-> PrettyPrintDocs(r.value, max_results)]

\* the scores of the pipelines: at the threshold and above it
PipelineScores == {SIMILARITY_THRESHOLD, SIMILARITY_THRESHOLD + 1}

\* a base retriever that appends the documents to the page list of its class
BaseRetrieverPagesExtended(default, documents) ==
    [pages |-> default \o documents, default |-> default \o documents]

\* web_retriever.py lines 303-304: the new SearchAPIRetriever starts from
\* the class's default and its pages field is then assigned the compressor's
\* own document list; the default is left as it was
BaseRetrieverPages(default, documents) ==
    [pages |-> documents, default |-> default]

\* lines 124-132: the compressor over scraped_content, with the default
\* max_results of get_context
TaskCompress(t) ==
    /\ task_pc[t] = "compress"
    /\ running = t
    /\ LET b == BaseRetrieverPages(retriever_pages, task_docs[t])
           n == Len(SplitDocuments(GetRelevantDocuments(b.pages)))
       IN  /\ retriever_pages' = b.default
           /\ \E E \in EmbeddingOutcomes(n, PipelineScores) :
                LET r == ContextCompressor_get_context(b.pages,
                                                       COMPRESS_MAX_RESULTS, E)
                IN  IF r.raised
                    THEN TaskFinish(t, <<>>, r.exc)
                    ELSE TaskFinish(t, r.value, NoExc)
    /\ cfg' = StageLeavesConfig(cfg)
    /\ UNCHANGED <<env_api_key, run_vars, sq_response, agent_given, agent_attempts, agent,
                   sub_queries, cr_pc, cr_exc, context, task_args, nfinished,
                   outer>>
    /\ UNCHANGED unit_vars

\* asyncio.gather's _done_callback for child t: the first exception of a child
\* is set on the outer future; when every child is done the outer future gets
\* the list of the children's results. Setting the outer future queues the
\* wake-up of conduct_research.
GatherDone(t) ==
    /\ cr_pc = "awaiting"
    /\ running = 0
    /\ loop_ready # <<>>
    /\ Head(loop_ready) = DoneHandle(t)
    /\ nfinished' = nfinished + 1
    /\ IF outer.state # "pending"
       THEN /\ loop_ready' = Tail(loop_ready)
            /\ UNCHANGED outer
       ELSE IF task_exc[t] # NoExc
       THEN /\ outer' = [state |-> "exception", result |-> <<>>,
                         exc |-> task_exc[t]]
            /\ loop_ready' = Append(Tail(loop_ready), MainHandle)
       ELSE IF nfinished + 1 = Len(task_pc)
       THEN /\ outer' = [state |-> "result",
                         result |-> GatherResults(task_result), exc |-> NoExc]
            /\ loop_ready' = Append(Tail(loop_ready), MainHandle)
       ELSE /\ loop_ready' = Tail(loop_ready)
            /\ UNCHANGED outer
    /\ UNCHANGED <<cfg, env_api_key, run_vars, sq_response, retriever_pages,
                   agent_given, agent_attempts, agent,
                   sub_queries, cr_pc, cr_exc, context, running, sem_value,
                   sem_waiters, task_args, task_pc, task_urls, task_docs,
                   task_result, task_exc>>
    /\ UNCHANGED unit_vars

\* lines 165-169: conduct_research wakes from await asyncio.gather: the outer
\* future's exception is raised out of conduct_research, or its result is
\* stored in self.context and returned
MainResume ==
    /\ cr_pc = "awaiting"
    /\ running = 0
    /\ loop_ready # <<>>
    /\ Head(loop_ready) = MainHandle
    /\ loop_ready' = Tail(loop_ready)
    /\ IF outer.state = "exception"
       THEN /\ cr_pc' = "raised"
            /\ cr_exc' = outer.exc
            /\ UNCHANGED context
       ELSE /\ cr_pc' = "returned"
            /\ context' = outer.result
            /\ UNCHANGED cr_exc
    /\ UNCHANGED <<cfg, env_api_key, run_vars, sq_response, retriever_pages,
                   agent_given, agent_attempts, agent,
                   sub_queries, running, sem_value, sem_waiters, task_args,
                   task_pc, task_urls, task_docs, task_result, task_exc,
                   nfinished, outer>>
    /\ UNCHANGED unit_vars

\* the researcher is not part of the run: no conduct_research is in progress
OrchIdle ==
    /\ cfg = [DEFAULT_CONCURRENCY_LIMIT |-> DEFAULT_CONCURRENCY_LIMIT,
              max_search_results_per_query |-> 1,
              MIN_CONTENT_LENGTH |-> MIN_CONTENT_LENGTH,
              DEFAULT_TIMEOUT |-> DEFAULT_TIMEOUT,
              DEFAULT_MAX_WORKERS |-> DEFAULT_MAX_WORKERS]
    /\ env_api_key = FALSE
    /\ retriever_pages = <<>>
    /\ sq_response = NoAnswer
    /\ run_pc = "idle"
    /\ report_type = "research_report"
    /\ report_calls = <<>>
    /\ agent_given = FALSE
    /\ agent_attempts = 0
    /\ agent = "None"
    /\ sub_queries = <<>>
    /\ cr_pc = "idle"
    /\ cr_exc = NoExc
    /\ context = <<>>
    /\ loop_ready = <<>>
    /\ running = 0
    /\ sem_value = 0
    /\ sem_waiters = <<>>
    /\ task_args = <<>>
    /\ task_pc = <<>>
    /\ task_urls = <<>>
    /\ task_docs = <<>>
    /\ task_result = <<>>
    /\ task_exc = <<>>
    /\ nfinished = 0
    /\ outer = [state |-> "none", result |-> <<>>, exc |-> NoExc]

NoOutcome == [kind |-> "none", results |-> <<>>]

\* no TavilySearch object is part of the run
TsIdle ==
    /\ ts_pc = "idle"
    /\ ts_query = 0
    /\ ts_max_results = 0
    /\ ts_headers_key = "None"
    /\ ts_environ_key = "None"
    /\ ts_primary = NoOutcome
    /\ ts_secondary = NoOutcome
    /\ ts_calls = <<>>
    /\ ts_ret = <<>>
    /\ ts_exc = NoExc

NoResponse == [net |-> "none", status |-> 0,
               content_type |-> [media |-> "", upper |-> FALSE],
               parse |-> "none", body |-> <<>>]

\* no scrape call is part of the run
BsIdle ==
    /\ bs_pc = "idle"
    /\ bs_resp = NoResponse
    /\ bs_parsed = FALSE
    /\ bs_ret = <<>>

NoFetch == [raised |-> FALSE, len |-> None]
NoContent == [url |-> "", raw_content |-> None]

\* no Scraper.run is part of the run
ScIdle ==
    /\ sc_pc = "idle"
    /\ sc_urls = <<>>
    /\ sc_max_workers = 0
    /\ sc_submitted = 0
    /\ sc_threads = 0
    /\ sc_item = <<>>
    /\ sc_fetch = <<>>
    /\ sc_content = <<>>
    /\ sc_ret = <<>>

NoEmbedding == [kind |-> "none", scores |-> <<>>, order |-> <<>>]

\* no get_context call is part of the run
CcIdle ==
    /\ cc_pc = "idle"
    /\ cc_docs = <<>>
    /\ cc_max_results = 0
    /\ cc_embed = NoEmbedding
    /\ cc_relevant = <<>>
    /\ cc_ret = <<>>
    /\ cc_exc = NoExc

\* no process_sub_query call is checked on its own
PlIdle ==
    /\ pl_pc = "idle"
    /\ pl_sub_query = 0
    /\ pl_env_key = FALSE
    /\ pl_max_results = 0
    /\ pl_found = <<>>
    /\ pl_urls = <<>>
    /\ pl_docs = <<>>
    /\ pl_log = <<>>
    /\ pl_ret = <<>>
    /\ pl_exc = NoExc

\* a dictionary: whether the name is bound to None, its keys other than
\* "callbacks", and the identity of the list under "callbacks" (0: no such key)
NoDict == [none |-> TRUE, keys |-> {}, callbacks |-> 0]
EmptyDict == [none |-> FALSE, keys |-> {}, callbacks |-> 0]

\* no get_config_with_callbacks call is part of the run
LfIdle ==
    /\ lf_pc = "idle"
    /\ lf_enabled = FALSE
    /\ lf_heap = <<>>
    /\ lf_existing_config = NoDict
    /\ lf_config = NoDict
    /\ lf_handler = "None"
    /\ lf_ret = NoDict

Init == OrchInit /\ TsIdle /\ BsIdle /\ ScIdle /\ CcIdle /\ PlIdle /\ LfIdle

Next ==
    \/ ChooseAgent
    \/ GetSubQueries
    \/ Gather
    \/ \E t \in Tasks : TaskStart(t)
    \/ \E t \in Tasks : TaskSearch(t)
    \/ \E t \in Tasks : TaskScrape(t)
    \/ \E t \in Tasks : TaskCompress(t)
    \/ \E t \in Tasks : GatherDone(t)
    \/ MainResume

Spec == Init /\ [][Next]_vars

-----------------------------------------------------------------------------
(* Properties of conduct_research                                           *)

\* C1: whenever conduct_research returns a list, the list has exactly one
\* entry per sub-query, whatever the search, scrape and compress steps of
\* each sub-query yielded (an empty context is an entry too).
C1_LengthInvariant ==
    cr_pc = "returned" => Len(context) = Len(sub_queries)

\* a returned list of several contexts, one of them empty and one not
C1_Witness ==
    /\ cr_pc = "returned"
    /\ Len(sub_queries) >= 2
    /\ \E i, j \in 1..Len(context) : context[i] = <<>> /\ context[j] # <<>>

IsConfigError(exc) == exc.type = "TavilyAPIError" /\ exc.reason = "no_api_key"

\* C2: a pipeline that raises anything but a configuration error does not
\* make conduct_research raise: conduct_research returns, the failed
\* sub-query's entry is the empty context and every other entry is the
\* context its pipeline computed.
C2_PipelineFailureIsolated ==
    \A t \in Tasks :
        (task_pc[t] = "failed" /\ ~IsConfigError(task_exc[t])) =>
            /\ cr_pc # "raised"
            /\ cr_pc = "returned" =>
                 /\ context[t] = <<>>
                 /\ \A u \in Tasks \ {t} :
                        task_pc[u] = "done" => context[u] = task_result[u]

\* C3: in the returned list, entry i is the context computed by the pipeline
\* that was started for sub_queries[i].
C3_OrderPreserved ==
    cr_pc = "returned" =>
        /\ Len(context) = Len(sub_queries)
        /\ \A i \in 1..Len(sub_queries) :
             \E t \in Tasks :
                /\ task_args[t].index = i
                /\ task_args[t].sub_query = sub_queries[i]
                /\ context[i] = task_result[t]

\* a returned list whose first two contexts differ and are both non-empty
C3_Witness ==
    /\ cr_pc = "returned"
    /\ Len(context) >= 2
    /\ context[1] # <<>>
    /\ context[2] # <<>>
    /\ context[1] # context[2]

\* C4: the pipelines admitted by the semaphore and not yet finished are at
\* most DEFAULT_CONCURRENCY_LIMIT: the semaphore's value is the limit less the
\* admitted pipelines and never negative, and a task waits only on a
\* semaphore without a free slot.
C4_ConcurrencyBound ==
    Len(task_pc) > 0 =>
        /\ Cardinality(Admitted) <= cfg.DEFAULT_CONCURRENCY_LIMIT
        /\ sem_value >= 0
        /\ sem_value = cfg.DEFAULT_CONCURRENCY_LIMIT - Cardinality(Admitted)
        /\ \A t \in Tasks : task_pc[t] = "waiting" => sem_value = 0

\* as many pipelines admitted as the limit allows, one of them scraping,
\* while another sub-query has not started
C4_Witness ==
    /\ Len(task_pc) > 0
    /\ Cardinality(Admitted) = cfg.DEFAULT_CONCURRENCY_LIMIT
    /\ \E t \in Tasks : task_pc[t] = "scrape"
    /\ \E u \in Tasks : task_pc[u] = "ready"

\* C5: with a limit of at least 2, while one admitted pipeline is inside its
\* search or scrape step, a sub-query that has not started can start.
C5_SecondPipelineCanStart ==
    ( /\ cfg.DEFAULT_CONCURRENCY_LIMIT >= 2
      /\ \E t \in Tasks : task_pc[t] \in {"search", "scrape"}
      /\ \E u \in Tasks : task_pc[u] = "ready" )
    => ENABLED (\E u \in Tasks : TaskStart(u))

\* every pipeline runs from its admission to its end within one step of the
\* loop: no two pipelines are ever in flight together
PipelinesSerialized == Cardinality(Admitted) <= 1

\* C20: no step of conduct_research, of a sub-query pipeline, of the scraper
\* or of the compressor changes a field of the configuration object: the
\* concurrency limit, the worker count, the timeout, the minimum content
\* length and the search-result cap are the same in every state of a run.
C20_ConfigUnchanged == [][cfg' = cfg]_vars

\* conduct_research has returned the contexts of two or more pipelines, one
\* of them not empty, under a search-result cap of 2
C20_Witness ==
    /\ cr_pc = "returned"
    /\ Len(context) >= 2
    /\ \E i \in 1..Len(context) : context[i] # <<>>
    /\ cfg.max_search_results_per_query = 2
    /\ cfg.DEFAULT_CONCURRENCY_LIMIT = DEFAULT_CONCURRENCY_LIMIT
    /\ cfg.DEFAULT_MAX_WORKERS = DEFAULT_MAX_WORKERS

\* C25: a step of pipeline t writes no list of another pipeline nor the
\* page list of the retriever class; the documents it scrapes are pages of
\* its own urls, in their order, and every block of the context it returns
\* is a chunk of its own documents, so that the context of a sub-query is
\* made of its own search results, documents and chunks only.
C25_OwnDocumentsOnly ==
    [][\A t \in Tasks :
          running = t =>
            /\ \A u \in Tasks \ {t} :
                  /\ task_urls'[u] = task_urls[u]
                  /\ task_docs'[u] = task_docs[u]
                  /\ task_result'[u] = task_result[u]
            /\ retriever_pages' = retriever_pages
            /\ (task_pc[t] = "scrape" /\ task_pc'[t] = "compress") =>
                  \E pos \in [1..Len(task_docs'[t]) -> 1..Len(task_urls[t])] :
                     /\ \A k \in 1..Len(task_docs'[t]) :
                           task_docs'[t][k].url = task_urls[t][pos[k]]
                     /\ \A k, l \in 1..Len(task_docs'[t]) :
                           k < l => pos[k] < pos[l]
            /\ (task_pc[t] = "compress" /\ task_pc'[t] = "done") =>
                  LET chunks == SplitDocuments(
                                    GetRelevantDocuments(task_docs[t]))
                  IN  \A k \in 1..Len(task_result'[t]) :
                         \E c \in 1..Len(chunks) :
                            task_result'[t][k] =
                              [Source |-> chunks[c].source,
                               Title |-> chunks[c].title,
                               Content |-> chunks[c].page_content]
      ]_vars

\* two pipelines have returned contexts, the first from the page of one url
\* only and the second from the page of the other url only
C25_Witness ==
    /\ Len(task_pc) >= 2
    /\ task_pc[1] = "done"
    /\ task_pc[2] = "done"
    /\ task_result[1] # <<>>
    /\ task_result[2] # <<>>
    /\ \A k \in 1..Len(task_result[1]) : task_result[1][k].Source = "u1"
    /\ \A k \in 1..Len(task_result[2]) : task_result[2][k].Source = "u2"

\* C29: choose_agent is attempted at most 3 times: an attempt is made only
\* while no attempt has succeeded and fewer than 3 have been made, the first
\* attempt that does not raise gives the agent, and after the third failed
\* attempt conduct_research raises with no sub-queries generated and no
\* pipeline created.
C29_AtMostThreeAttempts ==
    /\ [](/\ agent_attempts <= 3
          /\ agent_given => agent_attempts = 0
          /\ (~agent_given /\ cr_pc = "choose_agent") =>
                (agent = "None" /\ agent_attempts < 3)
          /\ (~agent_given /\ cr_pc \notin {"choose_agent", "raised"}) =>
                (agent \in {"chosen", "Default Agent"}
                   /\ agent_attempts \in 1..3)
          /\ (~agent_given /\ agent = "None" /\ cr_pc = "raised") =>
                /\ agent_attempts = 3
                /\ cr_exc.type = "RetryError"
                /\ sq_response = NoAnswer
                /\ sub_queries = <<>>
                /\ Len(task_pc) = 0
                /\ context = <<>>)
    /\ [][agent_attempts' # agent_attempts =>
            /\ agent = "None"
            /\ agent_attempts < 3
            /\ agent_attempts' = agent_attempts + 1]_vars

\* the third attempt has failed and conduct_research has raised
C29_Witness ==
    /\ ~agent_given
    /\ agent_attempts = 3
    /\ cr_pc = "raised"
    /\ cr_exc.type = "RetryError"
    /\ Len(task_pc) = 0

\* C28: when the response of the language model is not valid JSON,
\* get_sub_queries returns the list holding the original query only, and
\* conduct_research creates exactly one pipeline, for the original query; the
\* list it returns has that pipeline's context as its only entry.
C28_BadJsonFallsBackToQuery ==
    sq_response.kind = "text" =>
        /\ sub_queries = <<ORIGINAL_QUERY>>
        /\ cr_pc \in {"awaiting", "returned"} =>
              /\ Len(task_pc) = 1
              /\ task_args[1] = [sub_query |-> ORIGINAL_QUERY, index |-> 1,
                                 total |-> 1]
        /\ cr_pc = "raised" => Len(task_pc) = 1
        /\ cr_pc = "returned" => context = <<task_result[1]>>

\* conduct_research has returned the context of the one pipeline it ran
\* after a response that was not JSON
C28_Witness ==
    /\ sq_response.kind = "text"
    /\ cr_pc = "returned"
    /\ Len(task_pc) = 1
    /\ task_pc[1] = "done"
    /\ context # <<<<>>>>

\* a researcher built with agent and role, the API key in the environment
InitAdmit ==
    /\ report_type = "research_report"
    /\ cfg \in Configs
    /\ env_api_key = TRUE
    /\ agent_given = TRUE
    /\ OrchFresh
    /\ TsIdle /\ BsIdle /\ ScIdle /\ CcIdle /\ PlIdle /\ LfIdle

\* conduct_research on a loop that keeps running its ready callbacks, every
\* remote call and every pipeline stage coming to an end
SpecAdmit == InitAdmit /\ [][Next]_vars /\ WF_vars(Next)

\* C26: a pipeline gives its slot back exactly once when it ends, by return
\* or by exception, and the free slots are the limit less the admitted
\* pipelines; every queued sub-query is eventually admitted, and once all
\* pipelines have finished the free slots are DEFAULT_CONCURRENCY_LIMIT.
C26_SlotsReleased ==
    /\ [][/\ \A t \in Tasks :
               /\ (task_pc[t] \in {"search", "scrape", "compress"}
                      /\ task_pc'[t] \in {"done", "failed"})
                     => sem_value' = sem_value + 1
               /\ task_pc[t] \in {"done", "failed"}
                     => task_pc'[t] = task_pc[t]
          /\ (Len(task_pc) > 0 /\ sem_value' > sem_value) =>
                \E t \in Tasks :
                   /\ task_pc[t] \in {"search", "scrape", "compress"}
                   /\ task_pc'[t] \in {"done", "failed"}]_vars
    /\ [](Len(task_pc) > 0 =>
            sem_value = cfg.DEFAULT_CONCURRENCY_LIMIT - Cardinality(Admitted))
    /\ (\E t \in Tasks : task_pc[t] \in {"ready", "waiting"})
          ~> (Len(task_pc) > 0
                /\ \A t \in Tasks : task_pc[t] \notin {"ready", "waiting"})
    /\ []((Len(task_pc) > 0
            /\ \A t \in Tasks : task_pc[t] \in {"done", "failed"})
             => sem_value = cfg.DEFAULT_CONCURRENCY_LIMIT)

\* three pipelines have finished under a limit of one slot, the second by
\* an exception, and the slot is free
C26_Witness ==
    /\ cfg.DEFAULT_CONCURRENCY_LIMIT = 1
    /\ Len(task_pc) = 3
    /\ task_pc[1] = "done"
    /\ task_pc[2] = "failed"
    /\ task_pc[3] = "done"
    /\ sem_value = 1

-----------------------------------------------------------------------------
(* LiteResearcher.run: conduct_research, then generate_report               *)

REPORT_TYPES == {"research_report", "detailed_report"}

\* a string made of blocks and separators, one token each
BlockToken(b) == [sep |-> FALSE, block |-> <<b>>]
NewlineToken == [sep |-> TRUE, block |-> <<>>]

\* one context string as tokens
ContextTokens(c) == [k \in 1..Len(c) |-> BlockToken(c[k])]

\* the contexts joined from the last to the first
RECURSIVE JoinContextsBackwards(_)
JoinContextsBackwards(contexts) ==
    IF contexts = <<>> THEN <<>>
    ELSE IF Len(contexts) = 1 THEN ContextTokens(contexts[1])
    ELSE JoinContextsBackwards(Tail(contexts))
            \o <<NewlineToken>> \o ContextTokens(Head(contexts))

\* line 179, "\n".join(self.context): the strings in list order with one
\* separator between neighbours, around empty strings too
RECURSIVE JoinContexts(_)
JoinContexts(contexts) ==
    IF contexts = <<>> THEN <<>>
    ELSE IF Len(contexts) = 1 THEN ContextTokens(contexts[1])
    ELSE ContextTokens(Head(contexts)) \o <<NewlineToken>>
            \o JoinContexts(Tail(contexts))

ReportCall(fn, full_context) == [fn |-> fn, context |-> full_context]

\* the calls of generate_report (lines 182-229) that pass the context: for a
\* detailed report construct_subtopics (which catches every exception), the
\* introduction, then one report per subtopic up to the first that raises;
\* otherwise one report
ReportRuns(type, full_context) ==
    IF type = "detailed_report"
    THEN {[raised |-> r,
           calls |-> <<ReportCall("construct_subtopics", full_context),
                       ReportCall("get_report_introduction", full_context)>>
                     \o [i \in 1..j |->
                            ReportCall("generate_report", full_context)]] :
            r \in BOOLEAN, j \in 0..MaxSubtopics}
    ELSE {[raised |-> r,
           calls |-> <<ReportCall("generate_report", full_context)>>] :
            r \in BOOLEAN}

InitReport ==
    /\ report_type \in REPORT_TYPES
    /\ cfg \in Configs
    /\ env_api_key = TRUE
    /\ agent_given = TRUE
    /\ OrchFresh
    /\ TsIdle /\ BsIdle /\ ScIdle /\ CcIdle /\ PlIdle /\ LfIdle

\* lines 240-241: conduct_research has returned and generate_report runs
RunGenerateReport ==
    /\ run_pc = "conduct_research"
    /\ cr_pc = "returned"
    /\ \E g \in ReportRuns(report_type, JoinContexts(context)) :
         /\ report_calls' = g.calls
         /\ run_pc' = IF g.raised THEN "raised" ELSE "returned"
    /\ UNCHANGED <<cfg, env_api_key, report_type, sq_response,
                   retriever_pages, agent_given, agent_attempts, agent,
                   sub_queries, cr_pc, cr_exc, context>>
    /\ UNCHANGED loop_vars
    /\ UNCHANGED unit_vars

\* line 240: the exception of conduct_research leaves run
RunRaise ==
    /\ run_pc = "conduct_research"
    /\ cr_pc = "raised"
    /\ run_pc' = "raised"
    /\ UNCHANGED <<cfg, env_api_key, report_type, report_calls, sq_response,
                   retriever_pages, agent_given, agent_attempts, agent,
                   sub_queries, cr_pc, cr_exc, context>>
    /\ UNCHANGED loop_vars
    /\ UNCHANGED unit_vars

NextReport ==
    \/ Next
    \/ RunGenerateReport
    \/ RunRaise

SpecReport == InitReport /\ [][NextReport]_vars

\* the characters of the contexts before the first character of context i
RECURSIVE OffsetOf(_)
OffsetOf(i) == IF i <= 1 THEN 0 ELSE OffsetOf(i - 1) + Len(context[i - 1]) + 1

\* C27: a report call is made only after conduct_research has returned with
\* every pipeline finished and one context per sub-query; every report call
\* gets the contexts joined in sub-query order, context i starting after the
\* contexts before it and one separator each; after conduct_research has
\* raised there is no report call.
C27_ReportAfterResearch ==
    /\ report_calls # <<>> =>
          /\ cr_pc = "returned"
          /\ Len(context) = Len(sub_queries)
          /\ \A t \in Tasks : task_pc[t] = "done"
          /\ \A c \in 1..Len(report_calls) :
                LET full == report_calls[c].context
                    n == Len(context)
                IN  /\ Len(full) = IF n = 0 THEN 0
                                   ELSE OffsetOf(n) + Len(context[n])
                    /\ \A i \in 1..n :
                          /\ \A k \in 1..Len(context[i]) :
                                full[OffsetOf(i) + k] =
                                    [sep |-> FALSE, block |-> <<context[i][k]>>]
                          /\ i > 1 => full[OffsetOf(i)].sep
                    /\ \A i \in 1..n : \E t \in Tasks :
                          /\ task_args[t].index = i
                          /\ context[i] = task_result[t]
    /\ cr_pc = "raised" => (report_calls = <<>> /\ run_pc # "returned")
    /\ run_pc = "returned" => report_calls # <<>>

\* a detailed report has been generated from two different contexts, both
\* not empty
C27_Witness ==
    /\ run_pc = "returned"
    /\ report_type = "detailed_report"
    /\ Len(report_calls) > 2
    /\ Len(context) = 2
    /\ context[1] # <<>>
    /\ context[2] # <<>>
    /\ context[1] # context[2]

-----------------------------------------------------------------------------
(* One TavilySearch object: constructor, then search                        *)

TsInit ==
    /\ ts_pc = "new"
    /\ ts_query \in 0..MaxSubQueries
    /\ ts_max_results \in 1..MaxResults
    /\ ts_headers_key \in KeyValues
    /\ ts_environ_key \in KeyValues
    /\ ts_primary = NoOutcome
    /\ ts_secondary = NoOutcome
    /\ ts_calls = <<>>
    /\ ts_ret = <<>>
    /\ ts_exc = NoExc

\* TavilySearch.__init__: the client is built from _get_api_key()
TsConstruct ==
    /\ ts_pc = "new"
    /\ LET key == GetApiKey(ts_headers_key, ts_environ_key) IN
       IF key.raised
       THEN /\ ts_pc' = "config_error"
            /\ ts_exc' = key.exc
       ELSE /\ ts_pc' = "constructed"
            /\ UNCHANGED ts_exc
    /\ UNCHANGED <<ts_query, ts_max_results, ts_headers_key, ts_environ_key,
                   ts_primary, ts_secondary, ts_calls, ts_ret>>
    /\ UNCHANGED ts_frame

\* TavilySearch.search on a constructed object
TsSearch ==
    /\ ts_pc = "constructed"
    /\ \E P \in PrimaryOutcomes(ts_max_results),
          S \in SecondaryOutcomes(ts_max_results) :
         LET r == TavilySearch_search(ts_query, ts_max_results, P, S) IN
         /\ ts_primary' = P
         /\ ts_secondary' = S
         /\ ts_calls' = ts_calls \o r.calls
         /\ ts_pc' = IF r.raised THEN "raised" ELSE "returned"
         /\ ts_ret' = r.value
         /\ ts_exc' = r.exc
    /\ UNCHANGED <<ts_query, ts_max_results, ts_headers_key, ts_environ_key>>
    /\ UNCHANGED ts_frame

InitSearch ==
    OrchIdle /\ TsInit /\ BsIdle /\ ScIdle /\ CcIdle /\ PlIdle /\ LfIdle

NextSearch ==
    \/ TsConstruct
    \/ TsSearch

SpecSearch == InitSearch /\ [][NextSearch]_vars

PrimaryEmpty == ts_primary.kind = "ok" /\ ts_primary.results = <<>>
PrimaryFailed == ts_primary.kind = "exception"
SecondaryEmptyOrFailed ==
    ts_secondary.kind = "exception" \/ ts_secondary.results = <<>>

\* C6: when the primary provider returns an empty result list, search asks
\* the secondary provider with the same query and the same max_results and
\* returns what the secondary provider answers.
C6_EmptyPrimaryFallsBack ==
    (ts_pc \in {"returned", "raised"} /\ PrimaryEmpty) =>
        /\ ts_pc = "returned"
        /\ ts_calls = <<TavilyCall(ts_query, ts_max_results),
                        DdgCall(ts_query, ts_max_results)>>
        /\ ts_ret = IF ts_secondary.kind = "ok" THEN ts_secondary.results
                    ELSE <<>>

\* C7: search on a constructed object never raises: whatever the two
\* providers answer it returns a sequence, the empty one when the primary
\* fails or is empty and the secondary fails or is empty.
C7_SearchNeverRaises ==
    /\ ts_pc # "raised"
    /\ (ts_pc = "returned" /\ (PrimaryEmpty \/ PrimaryFailed)
            /\ SecondaryEmptyOrFailed) => ts_ret = <<>>

\* C8: with no API key in the headers nor in the environment, the
\* constructor raises the configuration error and no request has been issued
\* to either provider.
C8_MissingKeyFailsFast ==
    (ts_pc \notin {"idle", "new"} /\ ~Truthy(ts_headers_key)
        /\ ~Truthy(ts_environ_key)) =>
        /\ ts_pc = "config_error"
        /\ IsConfigError(ts_exc)
        /\ ts_calls = <<>>

\* the constructor has raised for an empty key in the headers and no key in
\* the environment
C8_Witness ==
    /\ ts_pc = "config_error"
    /\ ts_headers_key = ""
    /\ ts_environ_key = "None"
    /\ IsConfigError(ts_exc)

SecondaryAsked ==
    \E k \in 1..Len(ts_calls) : ts_calls[k].provider = "duckduckgo"

\* C21: the secondary provider is asked only after the primary provider has
\* raised or returned no results. When the primary returns at least one
\* result, search returns one {href, body} entry per primary result, in the
\* primary's order, and the secondary is not asked; when the primary raises,
\* the secondary is asked with the same query and the same max_results.
C21_SecondaryOnlyAfterPrimary ==
    (ts_pc \in {"returned", "raised"}) =>
        /\ SecondaryAsked => (PrimaryFailed \/ PrimaryEmpty)
        /\ (ts_primary.kind = "ok" /\ ts_primary.results # <<>>) =>
              /\ ts_pc = "returned"
              /\ Len(ts_ret) = Len(ts_primary.results)
              /\ \A i \in 1..Len(ts_ret) :
                    ts_ret[i] = [href |-> ts_primary.results[i].url,
                                 body |-> ts_primary.results[i].content]
              /\ ~SecondaryAsked
        /\ PrimaryFailed =>
              ts_calls = <<TavilyCall(ts_query, ts_max_results),
                           DdgCall(ts_query, ts_max_results)>>

\* search has returned two primary results with different urls
C21_Witness ==
    /\ ts_pc = "returned"
    /\ ts_primary.kind = "ok"
    /\ Len(ts_primary.results) = 2
    /\ ts_primary.results[1].url # ts_primary.results[2].url
    /\ Len(ts_ret) = 2
    /\ ~SecondaryAsked

-----------------------------------------------------------------------------
(* One process_sub_query call, stage by stage (literesearcher.py 100-132)   *)

PlInit ==
    /\ pl_pc = "search"
    /\ pl_sub_query \in 0..MaxSubQueries
    /\ pl_env_key \in BOOLEAN
    /\ pl_max_results \in 1..MaxResults
    /\ pl_found = <<>>
    /\ pl_urls = <<>>
    /\ pl_docs = <<>>
    /\ pl_log = <<>>
    /\ pl_ret = <<>>
    /\ pl_exc = NoExc

\* what the log keeps of a stage that has returned
StageCall(stage, given, got) == [stage |-> stage, given |-> given, got |-> got]

\* lines 111-119: the retriever is constructed and searched, and the urls
\* are taken from its results
PlSearch ==
    /\ pl_pc = "search"
    /\ LET key == GetApiKey("None", IF pl_env_key THEN "tvly-key" ELSE "None") IN
       IF key.raised
       THEN /\ pl_pc' = "raised"
            /\ pl_exc' = key.exc
            /\ UNCHANGED <<pl_found, pl_urls, pl_log>>
       ELSE \E P \in PrimaryOutcomes(pl_max_results),
               S \in SecondaryOutcomes(pl_max_results) :
              LET r == TavilySearch_search(pl_sub_query, pl_max_results, P, S)
              IN  IF r.raised
                  THEN /\ pl_pc' = "raised"
                       /\ pl_exc' = r.exc
                       /\ UNCHANGED <<pl_found, pl_urls, pl_log>>
                  ELSE /\ pl_found' = r.value
                       /\ pl_urls' = Hrefs(r.value)
                       /\ pl_log' = Append(pl_log,
                                       StageCall("search", pl_sub_query, r.value))
                       /\ pl_pc' = StageAfter("search")
                       /\ UNCHANGED pl_exc
    /\ UNCHANGED <<pl_sub_query, pl_env_key, pl_max_results, pl_docs, pl_ret>>
    /\ UNCHANGED pl_frame

\* line 122: scrape_urls(urls, self.cfg)
PlScrape ==
    /\ pl_pc = "scrape"
    /\ \E fs \in [1..Len(pl_urls) -> FetchOutcomes] :
         LET scraped_content == Scraper_run(pl_urls, fs) IN
         /\ pl_docs' = scraped_content
         /\ pl_log' = Append(pl_log, StageCall("scrape", pl_urls, scraped_content))
    /\ pl_pc' = StageAfter("scrape")
    /\ UNCHANGED <<pl_sub_query, pl_env_key, pl_max_results, pl_found, pl_urls,
                   pl_ret, pl_exc>>
    /\ UNCHANGED pl_frame

\* lines 124-132: the compressor over scraped_content
PlCompress ==
    /\ pl_pc = "compress"
    /\ LET n == Len(SplitDocuments(GetRelevantDocuments(pl_docs))) IN
       \E E \in EmbeddingOutcomes(n, PipelineScores) :
          LET r == ContextCompressor_get_context(pl_docs, COMPRESS_MAX_RESULTS, E)
          IN  IF r.raised
              THEN /\ pl_pc' = "raised"
                   /\ pl_exc' = r.exc
                   /\ UNCHANGED <<pl_log, pl_ret>>
              ELSE /\ pl_pc' = "returned"
                   /\ pl_ret' = r.value
                   /\ pl_log' = Append(pl_log,
                                       StageCall("compress", pl_docs, r.value))
                   /\ UNCHANGED pl_exc
    /\ UNCHANGED <<pl_sub_query, pl_env_key, pl_max_results, pl_found, pl_urls,
                   pl_docs>>
    /\ UNCHANGED pl_frame

InitPipeline ==
    OrchIdle /\ TsIdle /\ BsIdle /\ ScIdle /\ CcIdle /\ PlInit /\ LfIdle

NextPipeline ==
    \/ PlSearch
    \/ PlScrape
    \/ PlCompress

SpecPipeline == InitPipeline /\ [][NextPipeline]_vars

\* the search returned no result, or the scrape returned no document
Starved ==
    \/ Len(pl_log) >= 1 /\ pl_log[1].got = <<>>
    \/ Len(pl_log) >= 2 /\ pl_log[2].got = <<>>

STAGE_ORDER == <<"search", "scrape", "compress">>

\* C18: the stages of a pipeline return in the order search, scrape,
\* compress, each starting after the one before it has returned; the scrape
\* is given exactly the urls of the search's results, in their order, and the
\* compress is given what the scrape returned.
C18_StagesInOrder ==
    /\ \A k \in 1..Len(pl_log) : k <= 3 /\ pl_log[k].stage = STAGE_ORDER[k]
    /\ Len(pl_log) <= 3
    /\ pl_pc = "search" => Len(pl_log) = 0
    /\ pl_pc = "scrape" => Len(pl_log) = 1
    /\ pl_pc = "compress" => Len(pl_log) = 2
    /\ pl_pc = "returned" => Len(pl_log) = 3
    /\ Len(pl_log) >= 2 =>
          /\ Len(pl_log[2].given) = Len(pl_log[1].got)
          /\ \A i \in 1..Len(pl_log[1].got) :
                pl_log[2].given[i] = pl_log[1].got[i].href
    /\ Len(pl_log) >= 3 => pl_log[3].given = pl_log[2].got

\* a pipeline has returned a context after a search of two results, a scrape
\* of these two urls that kept one document, and the compress of it
C18_Witness ==
    /\ pl_pc = "returned"
    /\ Len(pl_log) = 3
    /\ Len(pl_log[1].got) = 2
    /\ Len(pl_log[2].given) = 2
    /\ Len(pl_log[2].got) = 1
    /\ pl_ret # <<>>

-----------------------------------------------------------------------------
(* One Scraper.run call: the thread pool of lines 200-205                   *)

WorkerCounts == {1, 2, DEFAULT_MAX_WORKERS}

UrlLists == UNION {[1..n -> URLS] : n \in 0..MaxUrls}

ScInit ==
    /\ sc_pc = "new"
    /\ sc_urls \in UrlLists
    /\ sc_max_workers \in WorkerCounts
    /\ sc_submitted = 0
    /\ sc_threads = 0
    /\ sc_item = [i \in 1..Len(sc_urls) |-> "none"]
    /\ sc_fetch = [i \in 1..Len(sc_urls) |-> NoFetch]
    /\ sc_content = [i \in 1..Len(sc_urls) |-> NoContent]
    /\ sc_ret = <<>>

Items == 1..Len(sc_item)

\* the fetches a worker thread is running
InFlight == {i \in Items : sc_item[i] = "running"}

\* line 203: the pool is created, no thread yet
ScEnter ==
    /\ sc_pc = "new"
    /\ sc_pc' = "pool"
    /\ UNCHANGED <<sc_urls, sc_max_workers, sc_submitted, sc_threads, sc_item,
                   sc_fetch, sc_content, sc_ret>>
    /\ UNCHANGED sc_frame

\* a pool that starts a thread for every work item, whatever max_workers says
MayStartThreadUnbounded(threads, max_workers) == TRUE

\* line 203, ThreadPoolExecutor(max_workers=max_workers): the pool starts a
\* thread only while fewer than max_workers have been started
MayStartThread(threads, max_workers) == threads < max_workers

\* line 204: executor.map submits every url, in order, before it returns.
\* A submit queues the work item; it starts a thread when none is idle and
\* fewer than max_workers have been started.
ScSubmit ==
    /\ sc_pc = "pool"
    /\ sc_submitted < Len(sc_urls)
    /\ sc_submitted' = sc_submitted + 1
    /\ sc_item' = [sc_item EXCEPT ![sc_submitted + 1] = "queued"]
    /\ \/ /\ MayStartThread(sc_threads, sc_max_workers)
          /\ sc_threads' = sc_threads + 1
       \/ /\ sc_threads > 0
          /\ UNCHANGED sc_threads
    /\ UNCHANGED <<sc_pc, sc_urls, sc_max_workers, sc_fetch, sc_content, sc_ret>>
    /\ UNCHANGED sc_frame

\* a pool whose threads run one work item at a time between them
WorkerFreeWhenPoolIdle(inflight, threads) == inflight = 0 /\ threads > 0

\* a started thread that is not running a work item waits on the queue
WorkerFree(inflight, threads) == inflight < threads

\* a worker thread without a work item takes the oldest one of the queue
ScWorkerTake(i) ==
    /\ sc_pc \in {"pool", "returned"}
    /\ sc_item[i] = "queued"
    /\ \A j \in 1..(i - 1) : sc_item[j] # "queued"
    /\ WorkerFree(Cardinality(InFlight), sc_threads)
    /\ sc_item' = [sc_item EXCEPT ![i] = "running"]
    /\ UNCHANGED <<sc_pc, sc_urls, sc_max_workers, sc_submitted, sc_threads,
                   sc_fetch, sc_content, sc_ret>>
    /\ UNCHANGED sc_frame

\* the worker's call of _extract_data_from_link for url i ends: the fetch
\* raised or returned text, and the future gets the dictionary
ScWorkerDone(i) ==
    /\ sc_pc \in {"pool", "returned"}
    /\ sc_item[i] = "running"
    /\ \E f \in FetchOutcomes :
         /\ sc_fetch' = [sc_fetch EXCEPT ![i] = f]
         /\ sc_content' = [sc_content EXCEPT ![i] =
                               ExtractDataFromLink(sc_urls[i], f)]
    /\ sc_item' = [sc_item EXCEPT ![i] = "done"]
    /\ UNCHANGED <<sc_pc, sc_urls, sc_max_workers, sc_submitted, sc_threads,
                   sc_ret>>
    /\ UNCHANGED sc_frame

\* leaving the with block without the join
ShutdownNoWait(items) == TRUE

\* leaving the with block: shutdown(wait=True) joins the worker threads, which
\* end when every queued work item has been run
ShutdownWait(items) == \A i \in 1..Len(items) : items[i] = "done"

\* line 205 reading the results from the last url to the first
ReadResultsBackwards(contents) ==
    LET r == Select(contents, {i \in 1..Len(contents) :
                                  contents[i].raw_content # None})
    IN  [k \in 1..Len(r) |-> r[Len(r) + 1 - k]]

\* line 205: the iterator of executor.map yields the results in the order
\* of the urls; the entries without content are left out
ReadResults(contents) ==
    Select(contents, {i \in 1..Len(contents) : contents[i].raw_content # None})

\* lines 203-205: map has returned, the with block is left, and the results
\* are read in the order of the urls, the entries without content left out
ScReturn ==
    /\ sc_pc = "pool"
    /\ sc_submitted = Len(sc_urls)
    /\ ShutdownWait(sc_item)
    /\ sc_ret' = ReadResults(sc_content)
    /\ sc_pc' = "returned"
    /\ UNCHANGED <<sc_urls, sc_max_workers, sc_submitted, sc_threads, sc_item,
                   sc_fetch, sc_content>>
    /\ UNCHANGED sc_frame

InitScrape ==
    OrchIdle /\ TsIdle /\ BsIdle /\ ScInit /\ CcIdle /\ PlIdle /\ LfIdle

NextScrape ==
    \/ ScEnter
    \/ ScSubmit
    \/ \E i \in Items : ScWorkerTake(i)
    \/ \E i \in Items : ScWorkerDone(i)
    \/ ScReturn

SpecScrape == InitScrape /\ [][NextScrape]_vars

\* the urls whose own fetch returned text of sufficient length
Sufficient == {i \in Items : ~sc_fetch[i].raised
                             /\ sc_fetch[i].len >= MIN_CONTENT_LENGTH}

\* C11: every document run returns has raw_content of at least
\* MIN_CONTENT_LENGTH characters; a url whose content is shorter or empty has
\* no document in the list, and content of exactly MIN_CONTENT_LENGTH
\* characters has one.
C11_ShortContentOmitted ==
    sc_pc = "returned" =>
        /\ \A k \in 1..Len(sc_ret) :
              /\ sc_ret[k].raw_content # None
              /\ sc_ret[k].raw_content >= MIN_CONTENT_LENGTH
        /\ Len(sc_ret) = Cardinality(Sufficient)
        /\ \A i \in Items :
              (~sc_fetch[i].raised /\ sc_fetch[i].len < MIN_CONTENT_LENGTH)
                  => sc_content[i].raw_content = None

\* run has returned one document of exactly MIN_CONTENT_LENGTH characters
\* after fetching a page of fewer characters and an empty one
C11_Witness ==
    /\ sc_pc = "returned"
    /\ Len(sc_ret) = 1
    /\ sc_ret[1].raw_content = MIN_CONTENT_LENGTH
    /\ \E i, j \in Items :
          /\ ~sc_fetch[i].raised /\ sc_fetch[i].len = MIN_CONTENT_LENGTH - 1
          /\ ~sc_fetch[j].raised /\ sc_fetch[j].len = 0

\* C12: the list run returns holds, in the order of the urls, exactly the
\* documents of the urls whose own fetch returned text of sufficient length,
\* whatever the fetches of the other urls did; a url whose fetch raised has
\* no entry.
C12_FetchFailureIsolated ==
    sc_pc = "returned" =>
        sc_ret = Select([i \in Items |-> [url |-> sc_urls[i],
                                          raw_content |-> sc_fetch[i].len]],
                        {i \in Items : ~sc_fetch[i].raised
                                       /\ sc_fetch[i].len >= MIN_CONTENT_LENGTH})

\* run has returned the document of the second url after the fetch of the
\* first url raised
C12_Witness ==
    /\ sc_pc = "returned"
    /\ Len(sc_urls) >= 2
    /\ sc_fetch[1].raised
    /\ ~sc_fetch[2].raised
    /\ sc_ret = <<[url |-> sc_urls[2], raw_content |-> sc_fetch[2].len]>>

\* C13: when run has returned, every url has been submitted and no fetch of
\* the batch is queued or in flight.
C13_ReturnsAfterAllFetches ==
    sc_pc = "returned" =>
        /\ sc_submitted = Len(sc_urls)
        /\ \A i \in Items : sc_item[i] = "done"
        /\ InFlight = {}

\* run has returned from a batch that had more urls than worker threads
C13_Witness ==
    /\ sc_pc = "returned"
    /\ Len(sc_urls) > sc_max_workers
    /\ sc_threads = sc_max_workers
    /\ \A i \in Items : sc_item[i] = "done"

\* C24: every extraction that has ended is held at the position of its own
\* url, whenever it ended; the list run returns has exactly one entry for
\* each position whose extraction produced content of sufficient length, none
\* for any other, and the entries are in the order of the url list.
C24_OnePerPositionInOrder ==
    /\ \A i \in Items : sc_item[i] = "done" =>
          sc_content[i] = [url |-> sc_urls[i],
                           raw_content |-> IF i \in Sufficient
                                           THEN sc_fetch[i].len ELSE None]
    /\ sc_pc = "returned" =>
          \E pos \in [1..Len(sc_ret) -> Items] :
            /\ \A k \in 1..Len(sc_ret) :
                  /\ sc_ret[k].url = sc_urls[pos[k]]
                  /\ sc_ret[k].raw_content = sc_fetch[pos[k]].len
            /\ \A k, l \in 1..Len(sc_ret) : k < l => pos[k] < pos[l]
            /\ {pos[k] : k \in 1..Len(sc_ret)} = Sufficient

\* run has returned, on a pool of two workers, the entries of the first two
\* of three urls, in their order; the third, the first url again, has none
C24_Witness ==
    /\ sc_pc = "returned"
    /\ sc_urls = <<"u2", "u1", "u2">>
    /\ sc_max_workers = 2
    /\ sc_threads = 2
    /\ Sufficient = {1, 2}
    /\ Len(sc_ret) = 2
    /\ sc_ret[1].url = "u2"
    /\ sc_ret[2].url = "u1"

\* Scraper.run when the main thread and every worker thread keep being
\* scheduled and every fetch ends: a step that stays possible is taken
SpecScrapeFair == SpecScrape /\ WF_vars(NextScrape)

\* a fetch that ran into its timeout: session.get raises a RequestException
\* and scrape returns "" (lines 134, 153-155)
TimedOut == [raised |-> FALSE, len |-> 0]

\* C23: when every fetch ends, Scraper.run returns, for every url list,
\* lists longer than max_workers included. While a fetch is in flight, every
\* other fetch in flight can end and a free worker can take the next queued
\* url; a fetch that timed out has no entry in the returned list, and the
\* urls that yielded sufficient content have theirs.
C23_RunTerminates ==
    /\ <>(sc_pc = "returned")
    /\ [](\A i \in InFlight : \A j \in Items \ {i} :
            /\ sc_item[j] = "running" => ENABLED ScWorkerDone(j)
            /\ (/\ sc_item[j] = "queued"
                /\ \A k \in 1..(j - 1) : sc_item[k] # "queued"
                /\ Cardinality(InFlight) < sc_threads)
                   => ENABLED ScWorkerTake(j))
    /\ [](sc_pc = "returned" =>
            /\ \A i \in Items : sc_item[i] = "done"
            /\ \A i \in Items : sc_fetch[i] = TimedOut =>
                  sc_content[i].raw_content = None
            /\ Len(sc_ret) = Cardinality(Sufficient)
            /\ \A k \in 1..Len(sc_ret) :
                  \E i \in Sufficient : sc_ret[k] = sc_content[i])

\* run has returned for three urls on a pool of two workers: the fetch of
\* the first timed out and the other two are in the list
C23_Witness ==
    /\ sc_pc = "returned"
    /\ Len(sc_urls) = 3
    /\ sc_max_workers = 2
    /\ sc_fetch[1] = TimedOut
    /\ Len(sc_ret) = 2
    /\ Sufficient = {2, 3}

-----------------------------------------------------------------------------
(* conduct_research with the thread pool of every scrape_urls call stepped  *)

\* the configurations of a run whose worker count is set
RunConfigs == [DEFAULT_CONCURRENCY_LIMIT : ConcurrencyLimits,
               max_search_results_per_query : {MaxResults},
               MIN_CONTENT_LENGTH : {MIN_CONTENT_LENGTH},
               DEFAULT_TIMEOUT : {DEFAULT_TIMEOUT},
               DEFAULT_MAX_WORKERS : WorkerCounts]

\* a researcher built with agent and role, the API key in the environment
InitRun ==
    /\ report_type = "research_report"
    /\ cfg \in RunConfigs
    /\ env_api_key = TRUE
    /\ agent_given = TRUE
    /\ OrchFresh
    /\ TsIdle /\ BsIdle /\ ScIdle /\ CcIdle /\ PlIdle /\ LfIdle

\* lines 122, 238-239: process_sub_query calls scrape_urls, which builds a
\* Scraper on the urls and the configuration and calls run, on the loop's
\* thread
TaskScrapeCall(t) ==
    /\ task_pc[t] = "scrape"
    /\ running = t
    /\ sc_pc = "idle"
    /\ sc_pc' = "new"
    /\ sc_urls' = task_urls[t]
    /\ sc_max_workers' = cfg.DEFAULT_MAX_WORKERS
    /\ sc_submitted' = 0
    /\ sc_threads' = 0
    /\ sc_item' = [i \in 1..Len(task_urls[t]) |-> "none"]
    /\ sc_fetch' = [i \in 1..Len(task_urls[t]) |-> NoFetch]
    /\ sc_content' = [i \in 1..Len(task_urls[t]) |-> NoContent]
    /\ sc_ret' = <<>>
    /\ UNCHANGED sc_frame

\* line 122: run has returned and its list is bound to scraped_content; the
\* Scraper and its pool are garbage
TaskScrapeReturn(t) ==
    /\ task_pc[t] = "scrape"
    /\ running = t
    /\ sc_pc = "returned"
    /\ task_docs' = [task_docs EXCEPT ![t] = sc_ret]
    /\ task_pc' = [task_pc EXCEPT ![t] = StageAfter("scrape")]
    /\ cfg' = StageLeavesConfig(cfg)
    /\ sc_pc' = "idle"
    /\ sc_urls' = <<>>
    /\ sc_max_workers' = 0
    /\ sc_submitted' = 0
    /\ sc_threads' = 0
    /\ sc_item' = <<>>
    /\ sc_fetch' = <<>>
    /\ sc_content' = <<>>
    /\ sc_ret' = <<>>
    /\ UNCHANGED <<env_api_key, run_vars, sq_response, retriever_pages,
                   agent_given, agent_attempts, agent,
                   sub_queries, cr_pc, cr_exc, context, loop_ready, running,
                   sem_value, sem_waiters, task_args, task_urls, task_result,
                   task_exc, nfinished, outer>>
    /\ UNCHANGED <<ts_vars, bs_vars, cc_vars, pl_vars, lf_vars>>

NextRun ==
    \/ ChooseAgent
    \/ GetSubQueries
    \/ Gather
    \/ \E t \in Tasks : TaskStart(t)
    \/ \E t \in Tasks : TaskSearch(t)
    \/ \E t \in Tasks : TaskScrapeCall(t)
    \/ ScEnter
    \/ ScSubmit
    \/ \E i \in Items : ScWorkerTake(i)
    \/ \E i \in Items : ScWorkerDone(i)
    \/ ScReturn
    \/ \E t \in Tasks : TaskScrapeReturn(t)
    \/ \E t \in Tasks : TaskCompress(t)
    \/ \E t \in Tasks : GatherDone(t)
    \/ MainResume

SpecRun == InitRun /\ [][NextRun]_vars

\* the fetches in flight for pipeline t: those of the Scraper.run its
\* scrape_urls call is in
FetchesInFlight(t) ==
    IF running = t /\ task_pc[t] = "scrape" THEN Cardinality(InFlight) ELSE 0

RECURSIVE SumInFlight(_)
SumInFlight(T) ==
    IF T = {} THEN 0
    ELSE LET t == CHOOSE x \in T : TRUE
         IN  FetchesInFlight(t) + SumInFlight(T \ {t})

\* C22: the fetches in flight inside one Scraper.run are at most the
\* configured max_workers, and the fetches in flight across the research
\* run, counted over the admitted sub-queries, are all the fetches in flight
\* and at most DEFAULT_CONCURRENCY_LIMIT times max_workers.
C22_FetchesBounded ==
    /\ Cardinality(InFlight) <= sc_max_workers
    /\ sc_pc # "idle" => sc_max_workers = cfg.DEFAULT_MAX_WORKERS
    /\ SumInFlight(Admitted) = Cardinality(InFlight)
    /\ SumInFlight(Admitted)
          <= cfg.DEFAULT_CONCURRENCY_LIMIT * cfg.DEFAULT_MAX_WORKERS

\* a pool of one worker has one fetch in flight and a second url queued,
\* for the second of three sub-queries
C22_Witness ==
    /\ sc_max_workers = 1
    /\ Cardinality(InFlight) = 1
    /\ \E i \in Items : sc_item[i] = "queued"
    /\ running = 2
    /\ Len(task_pc) = 3

-----------------------------------------------------------------------------
(* One ContextCompressor.get_context call (web_retriever.py)                *)

\* the similarity scores of the chunks, in hundredths: below the threshold,
\* at it, and two above it
Scores == {SIMILARITY_THRESHOLD - 1, SIMILARITY_THRESHOLD,
           SIMILARITY_THRESHOLD + 1, SIMILARITY_THRESHOLD + 2}

\* the lengths of the scraped pages: one chunk, two chunks, three chunks
ContentSizes == {MIN_CONTENT_LENGTH, CHUNK_SIZE + 1,
                 2 * CHUNK_SIZE - CHUNK_OVERLAP + 1}

Pages == [url : URLS, raw_content : ContentSizes]

\* the document lists: pages of different urls
DocumentLists ==
    {d \in SeqsOf(Pages, 0, Cardinality(URLS)) :
        /\ \A i, j \in 1..Len(d) : i # j => d[i].url # d[j].url
        /\ Len(SplitDocuments(GetRelevantDocuments(d))) <= MaxChunks}

MaxResultsArgs == {1, 2, COMPRESS_MAX_RESULTS}

CcInit ==
    /\ cc_pc = "new"
    /\ cc_docs \in DocumentLists
    /\ cc_max_results \in MaxResultsArgs
    /\ cc_embed = NoEmbedding
    /\ cc_relevant = <<>>
    /\ cc_ret = <<>>
    /\ cc_exc = NoExc

\* the chunks the splitter makes of self.documents, in encounter order
CcChunks == SplitDocuments(GetRelevantDocuments(cc_docs))

\* one call of get_context
CcGetContext ==
    /\ cc_pc = "new"
    /\ \E E \in EmbeddingOutcomes(Len(CcChunks), Scores) :
         LET r == ContextCompressor_get_context(cc_docs, cc_max_results, E) IN
         /\ cc_embed' = E
         /\ cc_pc' = IF r.raised THEN "raised" ELSE "returned"
         /\ cc_relevant' = r.relevant_docs
         /\ cc_ret' = r.value
         /\ cc_exc' = r.exc
    /\ UNCHANGED <<cc_docs, cc_max_results>>
    /\ UNCHANGED cc_frame

InitCompress ==
    OrchIdle /\ TsIdle /\ BsIdle /\ ScIdle /\ CcInit /\ PlIdle /\ LfIdle

NextCompress == CcGetContext

SpecCompress == InitCompress /\ [][NextCompress]_vars

\* the chunk a block of the returned string renders
BlockChunk(b) ==
    [source |-> b.Source, title |-> b.Title, page_content |-> b.Content]

\* the encounter index of a chunk, and its similarity score
ChunkIndex(c) == CHOOSE i \in 1..Len(CcChunks) : CcChunks[i] = c
ScoreOf(c) == cc_embed.scores[ChunkIndex(c)]

\* the encounter indexes of the chunks the filter kept
KeptIndexes == {ChunkIndex(cc_relevant[k]) : k \in 1..Len(cc_relevant)}

\* the place of chunk i among the chunks by descending score
RankOf(i) == CHOOSE k \in 1..Len(cc_embed.order) : cc_embed.order[k] = i

C15_AtMostMaxResults ==
    cc_pc = "returned" =>
        /\ Len(cc_ret) <= cc_max_results
        /\ \A k \in 1..Len(cc_ret) :
              \E j \in 1..Len(cc_relevant) : BlockChunk(cc_ret[k]) = cc_relevant[j]
        /\ \A k, l \in 1..Len(cc_ret) : k # l => cc_ret[k] # cc_ret[l]

\* more chunks passed the filter than max_results, and the string has
\* max_results blocks
C15_Witness ==
    /\ cc_pc = "returned"
    /\ Len(cc_relevant) > cc_max_results
    /\ Len(cc_ret) = cc_max_results

\* C16: get_context returns the empty string and does not raise when the
\* document list is empty, and when the chunks of the documents were scored
\* and none has a score that passes the filter.
C16_EmptyWhenNothingPasses ==
    ( /\ cc_pc \in {"returned", "raised"}
      /\ \/ cc_docs = <<>>
         \/ /\ cc_embed.kind = "ok"
            /\ \A i \in 1..Len(CcChunks) :
                  cc_embed.scores[i] < SIMILARITY_THRESHOLD )
    => (cc_pc = "returned" /\ cc_ret = <<>> /\ cc_exc = NoExc)

\* get_context has returned the empty string for two documents of which no
\* chunk passed the filter
C16_Witness ==
    /\ cc_pc = "returned"
    /\ Len(cc_docs) = 2
    /\ cc_embed.kind = "ok"
    /\ \A i \in 1..Len(CcChunks) : cc_embed.scores[i] < SIMILARITY_THRESHOLD
    /\ cc_ret = <<>>

\* the chunks the filter kept, in encounter order
KeptInEncounterOrder == Select(CcChunks, KeptIndexes)

\* C19 (as stated): when more chunks pass the filter than max_results, the
\* string renders the first max_results of them in encounter order.
C19_EncounterOrder ==
    (cc_pc = "returned" /\ Len(cc_relevant) > cc_max_results) =>
        /\ Len(cc_ret) = cc_max_results
        /\ \A k \in 1..Len(cc_ret) :
              BlockChunk(cc_ret[k]) = KeptInEncounterOrder[k]

\* C19 (amended): when more chunks pass the filter than max_results, the
\* string renders max_results of them by descending similarity score: the
\* blocks are in non-increasing score order and no chunk left out has a
\* higher score than a rendered one.
C19_MostSimilarFirst ==
    (cc_pc = "returned" /\ Len(cc_relevant) > cc_max_results) =>
        /\ Len(cc_ret) = cc_max_results
        /\ \A k \in 1..Len(cc_ret) : BlockChunk(cc_ret[k]) = cc_relevant[k]
        /\ \A k \in 1..(Len(cc_ret) - 1) :
              ScoreOf(BlockChunk(cc_ret[k])) >= ScoreOf(BlockChunk(cc_ret[k + 1]))
        /\ \A k \in 1..Len(cc_ret), j \in KeptIndexes :
              (\A l \in 1..Len(cc_ret) : ChunkIndex(BlockChunk(cc_ret[l])) # j)
                  => cc_embed.scores[j] <= ScoreOf(BlockChunk(cc_ret[k]))

\* three chunks passed, max_results is 2, and the string renders the third
\* chunk before the first and leaves out the second
C19_Witness ==
    /\ cc_pc = "returned"
    /\ cc_max_results = 2
    /\ Len(cc_relevant) = 3
    /\ Len(cc_ret) = 2
    /\ ChunkIndex(BlockChunk(cc_ret[1])) = 3
    /\ ChunkIndex(BlockChunk(cc_ret[2])) = 1

-----------------------------------------------------------------------------
(* BeautifulSoupScraper.scrape (web_retriever.py)                           *)
(* A string is a sequence of characters; "" is the empty sequence.          *)

IsSpace(c) == c \in {" ", "\n"}

RECURSIVE LStrip(_)
LStrip(s) ==
    IF s = <<>> THEN <<>>
    ELSE IF IsSpace(Head(s)) THEN LStrip(Tail(s)) ELSE s

RECURSIVE RStrip(_)
RStrip(s) ==
    IF s = <<>> THEN <<>>
    ELSE IF IsSpace(s[Len(s)]) THEN RStrip(SubSeq(s, 1, Len(s) - 1)) ELSE s

\* str.strip()
Strip(s) == RStrip(LStrip(s))

\* the first position of a line break in s, 0 when there is none
FirstBreak(s) ==
    IF \E i \in 1..Len(s) : s[i] = "\n"
    THEN CHOOSE i \in 1..Len(s) :
            s[i] = "\n" /\ \A j \in 1..(i - 1) : s[j] # "\n"
    ELSE 0

\* str.splitlines(): no line for the empty string, none after a final break
RECURSIVE SplitLines(_)
SplitLines(s) ==
    IF s = <<>> THEN <<>>
    ELSE LET i == FirstBreak(s) IN
         IF i = 0 THEN <<s>>
         ELSE <<SubSeq(s, 1, i - 1)>> \o SplitLines(SubSeq(s, i + 1, Len(s)))

\* the first position of two consecutive blanks in s, 0 when there is none
FirstDouble(s) ==
    IF \E i \in 1..(Len(s) - 1) : s[i] = " " /\ s[i + 1] = " "
    THEN CHOOSE i \in 1..(Len(s) - 1) :
            /\ s[i] = " " /\ s[i + 1] = " "
            /\ \A j \in 1..(i - 1) : ~(s[j] = " " /\ s[j + 1] = " ")
    ELSE 0

\* str.split("  "): always at least one phrase
RECURSIVE SplitDouble(_)
SplitDouble(s) ==
    LET i == FirstDouble(s) IN
    IF i = 0 THEN <<s>>
    ELSE <<SubSeq(s, 1, i - 1)>> \o SplitDouble(SubSeq(s, i + 2, Len(s)))

\* "\n".join(parts)
RECURSIVE JoinLines(_)
JoinLines(parts) ==
    IF parts = <<>> THEN <<>>
    ELSE IF Len(parts) = 1 THEN parts[1]
    ELSE parts[1] \o <<"\n">> \o JoinLines(Tail(parts))

\* the elements of the parsed page: a tag, its own text, and the text of a
\* <script> nested in it ("" when it has none)
CONTENT_TAGS == {"p", "h1", "h2", "h3", "h4", "h5"}

\* element.text once the nested <script> and <style> subtrees are extracted
\* (lines 145-146)
ElementText(el) == el.text

\* BeautifulSoupScraper._get_content_from_url: the text of every content tag,
\* each followed by a line break, in document order
RECURSIVE GetContentFromUrl(_)
GetContentFromUrl(body) ==
    IF body = <<>> THEN <<>>
    ELSE (IF Head(body).tag \in CONTENT_TAGS
          THEN ElementText(Head(body)) \o <<"\n">> ELSE <<>>)
         \o GetContentFromUrl(Tail(body))

\* the phrases of the lines, stripped (lines 149-150)
RECURSIVE Phrases(_)
Phrases(lines) ==
    IF lines = <<>> THEN <<>>
    ELSE LET ps == SplitDouble(Strip(Head(lines)))
         IN  [i \in 1..Len(ps) |-> Strip(ps[i])] \o Phrases(Tail(lines))

\* lines 148-151: lines stripped, split at double blanks, the empty phrases
\* dropped, the rest joined by line breaks
CleanText(raw_content) ==
    LET chunks == Phrases(SplitLines(raw_content))
    IN  JoinLines(Select(chunks, {i \in 1..Len(chunks) : chunks[i] # <<>>}))

\* "application/pdf" in content_type, after lower()
IsPdf(content_type) == content_type.media = "application/pdf"

\* response.raise_for_status(): HTTPError for a 4xx or 5xx status
RaisesForStatus(status) == status >= 400 /\ status < 600

Returned(value, parsed) == [raised |-> FALSE, value |-> value, parsed |-> parsed]

\* scrape without its last except clause: only RequestException is caught
ScrapeCatchingRequestErrorsOnly(resp) ==
    IF resp.net # "ok" THEN Returned(<<>>, FALSE)
    ELSE IF RaisesForStatus(resp.status) THEN Returned(<<>>, FALSE)
    ELSE IF IsPdf(resp.content_type) THEN Returned(<<>>, FALSE)
    ELSE IF resp.parse # "ok"
         THEN [raised |-> TRUE, value |-> <<>>, parsed |-> TRUE]
    ELSE Returned(CleanText(GetContentFromUrl(resp.body)), TRUE)

\* BeautifulSoupScraper.scrape: resp is what session.get meets
BeautifulSoupScraper_scrape(resp) ==
    IF resp.net # "ok"
    THEN Returned(<<>>, FALSE)               \* except RequestException
    ELSE IF RaisesForStatus(resp.status)
    THEN Returned(<<>>, FALSE)               \* HTTPError, a RequestException
    ELSE IF IsPdf(resp.content_type)
    THEN Returned(<<>>, FALSE)               \* line 139
    ELSE IF resp.parse # "ok"
    THEN Returned(<<>>, TRUE)                \* except Exception
    ELSE Returned(CleanText(GetContentFromUrl(resp.body)), TRUE)

Texts == {<<>>, <<"a">>, <<" ", "a", " ">>, <<"a", " ", " ", "b">>,
          <<"a", "\n", "b">>}

Elements ==
    [tag : {"p", "h1"}, text : Texts, script : {<<>>, <<"x">>}]
    \cup [tag : {"div", "script"}, text : Texts, script : {<<>>}]

Bodies == UNION {[1..n -> Elements] : n \in 0..MaxElems}

\* the Content-Type header: its media type and whether it is written in
\* upper case; media "" is a response without the header
ContentTypes ==
    [media : {"", "text/html", "image/png", "application/json"},
     upper : {FALSE}]
    \cup [media : {"application/pdf"}, upper : BOOLEAN]

\* what session.get can meet: a network error, an error status, or a response
\* whose body the parser rejects or turns into elements
Responses ==
    [net : {"ConnectionError", "Timeout"}, status : {0},
     content_type : {[media |-> "", upper |-> FALSE]},
     parse : {"none"}, body : {<<>>}]
    \cup [net : {"ok"}, status : {404, 500}, content_type : ContentTypes,
          parse : {"none"}, body : {<<>>}]
    \cup [net : {"ok"}, status : {200, 300}, content_type : ContentTypes,
          parse : {"error"}, body : {<<>>}]
    \cup [net : {"ok"}, status : {200, 300}, content_type : ContentTypes,
          parse : {"ok"}, body : Bodies]

BsInit ==
    /\ bs_pc = "new"
    /\ bs_resp = NoResponse
    /\ bs_parsed = FALSE
    /\ bs_ret = <<>>

\* one call of scrape
BsScrape ==
    /\ bs_pc = "new"
    /\ \E resp \in Responses :
         LET r == BeautifulSoupScraper_scrape(resp) IN
         /\ bs_resp' = resp
         /\ bs_pc' = IF r.raised THEN "raised" ELSE "returned"
         /\ bs_parsed' = r.parsed
         /\ bs_ret' = r.value
    /\ UNCHANGED bs_frame

InitFetch ==
    OrchIdle /\ TsIdle /\ BsInit /\ ScIdle /\ CcIdle /\ PlIdle /\ LfIdle

NextFetch == BsScrape

SpecFetch == InitFetch /\ [][NextFetch]_vars

\* session.get raised, the status is an error status, or the parser raised
FetchFailed ==
    \/ bs_resp.net # "ok"
    \/ bs_resp.status >= 400
    \/ bs_resp.parse = "error"

NonHtml(content_type) == content_type.media \notin {"", "text/html"}

\* C10: for a successful response whose Content-Type is not HTML, scrape
\* returns the empty string and does not hand the body to the parser.
C10_NonHtmlSkipped ==
    (bs_pc = "returned" /\ bs_resp.net = "ok" /\ bs_resp.status \in 200..299
        /\ NonHtml(bs_resp.content_type))
    => (bs_ret = <<>> /\ ~bs_parsed)

-----------------------------------------------------------------------------
(* One LangfuseManager.get_config_with_callbacks call (langfuse_tools.py)   *)

CONFIG_KEYS == {"tags", "metadata"}
HANDLERS == {"h1", "h2"}

\* the caller's argument: None, or a dictionary with or without a
\* "callbacks" list, which is then the first list object of the heap
LfInit ==
    /\ lf_pc = "new"
    /\ lf_enabled \in BOOLEAN
    /\ \/ /\ lf_existing_config = NoDict
          /\ lf_heap = <<>>
       \/ /\ lf_existing_config \in
                [none : {FALSE}, keys : SUBSET CONFIG_KEYS, callbacks : {0}]
          /\ lf_heap = <<>>
       \/ /\ lf_existing_config \in
                [none : {FALSE}, keys : SUBSET CONFIG_KEYS, callbacks : {1}]
          /\ \E l \in SeqsOf(HANDLERS, 0, MaxCallbacks) : lf_heap = <<l>>
    /\ lf_config = NoDict
    /\ lf_handler = "None"
    /\ lf_ret = NoDict

\* Python truthiness of existing_config: None and the empty dict are falsy
DictTruthy(d) == ~d.none /\ (d.keys # {} \/ d.callbacks # 0)

\* dict.copy(): a new dictionary with the same keys, each bound to the same
\* value object as in the original
DictCopy(d) == [none |-> FALSE, keys |-> d.keys, callbacks |-> d.callbacks]

\* line 95
LfCopy ==
    /\ lf_pc = "new"
    /\ lf_config' = IF DictTruthy(lf_existing_config)
                     THEN DictCopy(lf_existing_config) ELSE EmptyDict
    /\ lf_pc' = "copied"
    /\ UNCHANGED <<lf_enabled, lf_heap, lf_existing_config, lf_handler, lf_ret>>
    /\ UNCHANGED lf_frame

\* line 97, get_callback_handler (lines 63-77): None when Langfuse is not
\* enabled or when the handler cannot be created
LfGetHandler ==
    /\ lf_pc = "copied"
    /\ IF ~lf_enabled
       THEN lf_handler' = "None"
       ELSE \E created \in BOOLEAN :
               lf_handler' = IF created THEN "handler" ELSE "None"
    /\ lf_pc' = "handled"
    /\ UNCHANGED <<lf_enabled, lf_heap, lf_existing_config, lf_config, lf_ret>>
    /\ UNCHANGED lf_frame

\* lines 98-103: with a handler, config["callbacks"] is created when missing
\* and the handler is appended to the list object it names
LfAttach ==
    /\ lf_pc = "handled"
    /\ IF lf_handler = "None"
       THEN /\ lf_ret' = lf_config
            /\ UNCHANGED <<lf_heap, lf_config>>
       ELSE IF lf_config.callbacks = 0
       THEN /\ lf_heap' = Append(lf_heap, <<lf_handler>>)
            /\ lf_config' = [lf_config EXCEPT !.callbacks = Len(lf_heap) + 1]
            /\ lf_ret' = lf_config'
       ELSE /\ lf_heap' = [lf_heap EXCEPT ![lf_config.callbacks] =
                                            Append(@, lf_handler)]
            /\ lf_ret' = lf_config
            /\ UNCHANGED lf_config
    /\ lf_pc' = "returned"
    /\ UNCHANGED <<lf_enabled, lf_existing_config, lf_handler>>
    /\ UNCHANGED lf_frame

InitLangfuse ==
    OrchIdle /\ TsIdle /\ BsIdle /\ ScIdle /\ CcIdle /\ PlIdle /\ LfInit

NextLangfuse ==
    \/ LfCopy
    \/ LfGetHandler
    \/ LfAttach

SpecLangfuse == InitLangfuse /\ [][NextLangfuse]_vars

\* C30: no step of get_config_with_callbacks changes the caller's
\* existing_config: it keeps its keys, and the list under its "callbacks"
\* key, when it has one, keeps its elements.
C30_ExistingConfigUnchanged ==
    [][/\ lf_existing_config' = lf_existing_config
       /\ lf_existing_config.callbacks # 0 =>
             lf_heap'[lf_existing_config.callbacks]
                = lf_heap[lf_existing_config.callbacks]]_vars

=============================================================================
